---- MODULE Spec2Model ----
(***************************************************************************)
(* Perfect Orbit (HyperOrbitGame): the per-frame simulation of             *)
(* src/script.js - ring store and windowing, pressure / critical orbit,    *)
(* escape / chain detection with its deferred commit, and the run          *)
(* lifecycle (start, tap, loop/step, endGame).                             *)
(*                                                                         *)
(* Numbers.  The code computes with IEEE doubles; the model computes with  *)
(* integers on three grids:                                                *)
(*   angles    TwoPi units to the full circle (Math.PI*2);                 *)
(*   time      one unit is the dt clamp of loop(): MaxDt = 1 stands for    *)
(*             0.033 s.  performance.now() is counted in the               *)
(*             same unit, from the latest start() (the code only ever uses *)
(*             differences of timestamps taken within one run);            *)
(*   pressure  PressureOne units to 1.0.                                   *)
(* Every numeric program constant is restated on its grid next to the      *)
(* source value; the durations keep the order they have in the source      *)
(* (dt clamp < tween durations < chain time < ring time floor < ring time  *)
(* budget < critical window A < critical window B).                        *)
(***************************************************************************)
EXTENDS Integers, Naturals, Sequences, FiniteSets, TLC

(* ------------------------------ bounds -------------------------------- *)
\* step() is not taken once state.escaped has reached this index
MaxEscaped == 6
\* largest value of the wall clock (per run) at which a frame still arrives
MaxNow == 16
\* a tap is not taken while this many taps lie in the trailing tap window
MaxTaps == 7
\* the player taps during the first TapUntil time units of a run
TapUntil == 0
\* the runs with obstacles: horizon, rings escaped, last time of a single
\* tap; the stalls of these runs: horizon, rings escaped
ObstacleNow == 10
ObstacleEscaped == 6
ObstacleTapUntil == 9
StallNow == 22
StallEscaped == 1
\* the runs of the three modes: horizon, rings escaped, the time until which
\* the player taps at any instant, the beat of the taps after it
ModeNow == 64
ModeEscaped == 41
ModeTapUntil == 8
ModeBeat == 4
\* the runs followed after their end: horizon, rings escaped
EndedNow == 9
EndedEscaped == 12
\* the runs in normal and in expert mode: horizon, rings escaped
ExpertNow == 14
ExpertEscaped == 20
\* the largest ring index created by the executions in daily mode
MaxDailyIndex == 57
\* the sessions of one player on one device, the runs a session saves
MaxSessions == 3
MaxRuns == 2
\* the level up to which XP is added
MaxLevel == 4
\* the runs with the progression followed: the last instant and the rings
\* escaped at which a frame is taken
RunsNow == 12
RunsEscaped == 6
\* the run ends whose install triggers are checked, the weeks that pass
PromptRuns == 3
MaxWeeks == 3

(* ------------------------- program constants -------------------------- *)
TwoPi == 8                        \* Math.PI*2
Pi == TwoPi \div 2                \* Math.PI
MaxDt == 1                        \* loop: Math.min(0.033, ...)
PressureOne == 1000               \* pressure 1.0 (clamp upper bound)
WINDOW_PAST == 2                  \* WINDOW.PAST
WINDOW_FUTURE == 4                \* WINDOW.FUTURE
maxChainCheck == 6                \* step: const maxChainCheck = 6
GAP_WIDTH_NORMAL == 2             \* ringParamsForIndex: 0.56 rad
GAP_WIDTH_EXPERT == 1             \* ringParamsForIndex: 0.42 rad
GAP_WIDTH_MIN == 1                \* effectiveGapWidth: clamp lower 0.08
GAP_WIDTH_MAX == 3                \* effectiveGapWidth: clamp upper 0.95
OBSTACLE_FROM == 5                \* ringParamsForIndex: if(i >= 5)
OBSTACLE_RING_README == 50        \* README: "Obstacles: Appear after ring 50"
pressureTimeRate == 40            \* ab.js: pressureTimeRate 0.08 / s
pressureTapRate == 120            \* ab.js: pressureTapRate 0.12
criticalThreshold == 900          \* ab.js: criticalThreshold 0.9
partialResetAmount == 400         \* ab.js: partialResetAmount 0.4
PRESSURE_DECAY_NORMAL == 30       \* step: pressureDecay 0.06 / s
PRESSURE_DECAY_EXPERT == 40       \* step: pressureDecay 0.08 / s
CRITICAL_WINDOW_A == 12           \* ab.js: criticalWindow 12 s
CRITICAL_WINDOW_B == 14           \* ab.js: criticalWindow 14 s
TAP_WINDOW == 4                   \* onTap: TAP_WINDOW 1000 ms
SPAM_FREE_TAPS == 3               \* onTap: tapsInLastSecond > 3
SPAM_STEP_TENTHS == 3             \* onTap: 0.3 per tap over 3
MAX_RING_TIME_NORMAL == 8         \* resetGame: maxRingTime 7.5 s
MAX_RING_TIME_EXPERT == 7         \* resetGame: maxRingTime 6.0 s
RING_TIME_FLOOR == 5              \* step: Math.max(2.6, ...)
RING_TIME_PER_SCORE_NORMAL == 6   \* step: 0.06 s per point (hundredths)
RING_TIME_PER_SCORE_EXPERT == 8   \* step: 0.08 s per point (hundredths)
TWEEN_SINGLE_NORMAL == 2          \* step: escapeTweenDuration 0.12 s
TWEEN_SINGLE_EXPERT == 1          \* step: escapeTweenDuration 0.10 s
TWEEN_MULTI_NORMAL == 3           \* step: 0.15 s
TWEEN_MULTI_EXPERT == 2           \* step: 0.12 s
TWEEN_PER_RING == 1               \* step: + 0.05 s per extra ring
TWEEN_CAP == 3                    \* step: Math.min(..., 0.4)
ProgressOne == 2520               \* escapeTweenProgress 1.0 (a multiple of every duration)
CHAIN_TIME == 4                   \* step: chainTimer 1.15 s per ring
CHAIN_MAX == 9                    \* step: Math.min(9, ...)
TIME_SINCE_ESCAPE_INIT == 999     \* resetGame: timeSinceLastEscape = 999
BALL_SPEED_BASE_NORMAL == 1       \* 1.15 rad/s
BALL_SPEED_BASE_EXPERT == 2       \* 1.45 rad/s
BALL_SPEED_PER_SCORES == 8        \* one more unit of speed per 8 points (0.018, 0.025 rad/s per point)
BALL_SPEED_MAX == 3               \* 3.5 rad/s
SLOW_FACTOR_MIN_PCT == 45         \* lerp(1.00, 0.45, pressure)
RING_SPEED_ABSOLUTE_MAX == 2      \* 3.0 rad/s
SPRINT_TARGET == 30               \* MODES.sprint.finiteTarget
DAILY_TARGET == 40                \* MODES.daily.finiteTarget
DAILY_LENGTH == 50                \* generateDailyPattern(dateId, 50)

(* ------------------------------ helpers ------------------------------- *)
Min(a, b) == IF a <= b THEN a ELSE b
Max(a, b) == IF a >= b THEN a ELSE b
Abs(a) == IF a < 0 THEN -a ELSE a
Sign(a) == IF a > 0 THEN 1 ELSE IF a < 0 THEN -1 ELSE 0

\* the JavaScript % operator: the result takes the sign of the dividend
Rem(a, n) == IF a >= 0 THEN a % n ELSE -((-a) % n)

\* division rounded to the nearest integer (ties away from zero), for the
\* products the code forms in floating point
\* a / n rounded up, a >= 0
CeilDiv(a, n) == (a + n - 1) \div n
RoundDiv(a, n) == IF a >= 0 THEN (2 * a + n) \div (2 * n) ELSE -((2 * (-a) + n) \div (2 * n))

\* clamp without the upper end
clamp_noUpper(v, a, b) == Max(a, v)

clamp(v, a, b) == Max(a, Min(b, v))

\* the normalisation without the correction below -pi
angNorm_noLower(a) ==
  LET a1 == Rem(a, TwoPi)
  IN  IF a1 > Pi THEN a1 - TwoPi ELSE a1

angNorm(a) ==
  LET a1 == Rem(a, TwoPi)
      a2 == IF a1 < -Pi THEN a1 + TwoPi ELSE a1
  IN  IF a2 > Pi THEN a2 - TwoPi ELSE a2

angDiff(a, b) == angNorm(a - b)

Range(s) == {s[k] : k \in 1..Len(s)}


(* --------------------------- random inputs ---------------------------- *)
\* One draw of the random source for the creation of one ring:
\* rand(0, 2*PI) for the gap centre, sign * rand(RING_SPEED_MIN, maxSpeed)
\* for the rotation, Math.random() < obstacleChance, and the position of
\* rand(minSeparation, maxSeparation) in its interval (0 = lower end).
GenDraws ==
  { [gapCenter |-> 0, rot |-> 1,  obstacle |-> FALSE, sep |-> 0],
    [gapCenter |-> Pi, rot |-> -1, obstacle |-> FALSE, sep |-> 0],
    [gapCenter |-> Pi, rot |-> -1, obstacle |-> TRUE,  sep |-> 0] }
\* the draw used for an index that the step does not create
NoDraw == [gapCenter |-> 0, rot |-> 1, obstacle |-> FALSE, sep |-> 0]
\* the draws of the rings of the first window (below OBSTACLE_FROM the
\* obstacle draw is not made)
StartDraws == {d \in GenDraws : ~d.obstacle}
\* the draws of the rings created by step
LoopDraws == {NoDraw}
\* rand(0, 2*PI) for the ball at resetGame
BallStarts == {0}
\* wall-clock time between two animation frames (StallGap: a long stall)
StallGap == CRITICAL_WINDOW_B
Gaps == {1, StallGap}
\* triangleAngleWidth of the obstacle (gapPx * 0.75 / screen radius)
TriangleWidths == {1}
Modes == {"endless", "daily", "sprint"}

(* ------------------------------ state --------------------------------- *)
VARIABLES
  state,        \* the `state` object of script.js (simulation fields)
  running,      \* let running
  lastT,        \* let lastT
  now,          \* performance.now(), counted from the latest start()
  expert,       \* let expert
  currentMode,  \* let currentMode
  abGroup,      \* playerData.abGroup
  endReason,    \* reason of the latest terminal transition of a run
  generated,    \* history: ring indices created so far in this run
  regenerated,  \* history: ring indices created more than once in this run
  telemetryLog, \* the telemetry events logged at the end of this run
  resetFrom,    \* history: what the start() just executed found (the end
                \* reason, a transition in flight, the critical orbit)
  dailyPattern, \* let dailyPattern: the pattern initApp loaded for todayId
  daily,        \* two independent executions in daily mode: for each, the
                \* dailyPattern it loaded and the gap centres of its rings
  player,       \* localStorage (po_data and the V1 best score), playerData of
                \* the running session, the sessions started and the calls
                \* of assignABGroup so far
  progression,  \* playerData.level, xp, unlocks and missions.active, with
                \* what the last calls returned; NotFollowed in the runs
                \* that leave the player's progression aside
  pwa           \* playerData.env of the install prompt, the timers set by
                \* checkPostRunInstallTriggers and the prompts shown

gameVars == <<state, running, lastT, now, expert, currentMode, abGroup,
              endReason, generated, regenerated, telemetryLog, resetFrom,
              dailyPattern, progression, pwa>>

vars == <<state, running, lastT, now, expert, currentMode, abGroup,
          endReason, generated, regenerated, telemetryLog, resetFrom,
          dailyPattern, daily, player, progression, pwa>>

Executions == {1, 2}
\* let dailyPattern = null; JSON.parse('null')
NoPattern == [isNull |-> TRUE]
\* localStorage.getItem(cacheKey) of a key that is not stored
NoEntry == [isMissing |-> TRUE]
\* the value of an array read at an index that is not a stored index
\* (undefined), kept apart from every angle of the grid
Undefined == -1

\* the value of resetFrom once another handler has run
NoReset == [reason |-> "none", pending |-> FALSE, critical |-> FALSE]

\* ab.js getABParams(abGroup).criticalWindow
criticalWindowOf(g) == IF g = "A" THEN CRITICAL_WINDOW_A ELSE CRITICAL_WINDOW_B

\* modes.js getModeConfig(mode).finiteTarget (0 stands for null)
finiteTarget(m) ==
  IF m = "sprint" THEN SPRINT_TARGET ELSE IF m = "daily" THEN DAILY_TARGET ELSE 0

(* ---------------------- 32-bit integer arithmetic ---------------------- *)
\* A 32-bit word is the pair <<high 16 bits, low 16 bits>>; the operators
\* below are the int32 / uint32 operations of the script on such words.
Half == 65536

RECURSIVE Xor16(_, _, _)
Xor16(a, b, n) ==
  IF n = 0 THEN 0 ELSE ((a + b) % 2) + 2 * Xor16(a \div 2, b \div 2, n - 1)

RECURSIVE Or16(_, _, _)
Or16(a, b, n) ==
  IF n = 0 THEN 0
  ELSE (IF a % 2 = 1 \/ b % 2 = 1 THEN 1 ELSE 0) + 2 * Or16(a \div 2, b \div 2, n - 1)

RECURSIVE Pow10(_)
Pow10(k) == IF k = 0 THEN 1 ELSE 10 * Pow10(k - 1)

RECURSIVE Pow2(_)
Pow2(k) == IF k = 0 THEN 1 ELSE 2 * Pow2(k - 1)

\* a ^ b, a | b
Xor32(x, y) == <<Xor16(x[1], y[1], 16), Xor16(x[2], y[2], 16)>>
Or32(x, y) == <<Or16(x[1], y[1], 16), Or16(x[2], y[2], 16)>>
\* a + b, wrapped to 32 bits
Add32(x, y) ==
  LET lo == x[2] + y[2]
  IN  <<(x[1] + y[1] + lo \div Half) % Half, lo % Half>>
\* -a, wrapped to 32 bits
Neg32(x) == Add32(<<(Half - 1) - x[1], (Half - 1) - x[2]>>, <<0, 1>>)
\* a >>> k and a << k, 0 < k < 16
Shr32(x, k) == <<x[1] \div Pow2(k), x[2] \div Pow2(k) + (x[1] % Pow2(k)) * Pow2(16 - k)>>
Shl32(x, k) == <<(x[1] * Pow2(k) + x[2] \div Pow2(16 - k)) % Half, (x[2] * Pow2(k)) % Half>>
\* the product of two 16-bit numbers as a word, by 8-bit pieces
Mul16(a, b) ==
  LET p0 == (a % 256) * b
      p1 == (a \div 256) * b
      lo == (p0 % Half) + 256 * (p1 % 256)
  IN  <<(p0 \div Half + p1 \div 256 + lo \div Half) % Half, lo % Half>>
\* Math.imul(a, b): the low 32 bits of the product
Imul(x, y) ==
  LET ll == Mul16(x[2], y[2])
      cross == Mul16(x[1], y[2])[2] + Mul16(x[2], y[1])[2]
  IN  <<(ll[1] + cross) % Half, ll[2]>>
\* Math.abs of the int32 value of the word
Abs32(x) == IF x[1] >= Half \div 2 THEN Neg32(x) ELSE x

(* ---------------------------- daily pattern --------------------------- *)
\* modes.js getTodayId: `${year}-${month}-${day}` with padStart(2, '0'), as
\* the sequence of its char codes ('0' is 48, '-' is 45)
Digit(n, k) == 48 + ((n \div Pow10(k)) % 10)
getTodayId(date) ==
  << Digit(date.year, 3), Digit(date.year, 2), Digit(date.year, 1), Digit(date.year, 0), 45,
     Digit(date.month, 1), Digit(date.month, 0), 45,
     Digit(date.day, 1), Digit(date.day, 0) >>

\* modes.js dateToSeed: hash = ((hash << 5) - hash) + char; hash = hash & hash;
\* return Math.abs(hash)
RECURSIVE dateHash(_, _, _)
dateHash(dateStr, i, hash) ==
  IF i > Len(dateStr) THEN hash
  ELSE dateHash(dateStr, i + 1,
                Add32(Add32(Shl32(hash, 5), Neg32(hash)), <<0, dateStr[i]>>))

dateToSeed(dateStr) == Abs32(dateHash(dateStr, 1, <<0, 0>>))

\* modes.js mulberry32: one call of the returned closure; `seed` is the
\* closure variable (seed += 0x6D2B79F5), value is the uint32 that is
\* divided by 4294967296
mulberry32(seed) ==
  LET t0 == Add32(seed, <<27947, 31221>>)
      t1 == Imul(Xor32(t0, Shr32(t0, 15)), Or32(t0, <<0, 1>>))
      t2 == Xor32(t1, Add32(t1, Imul(Xor32(t1, Shr32(t1, 7)), Or32(t1, <<0, 61>>))))
  IN  [seed |-> t0, value |-> Xor32(t2, Shr32(t2, 14))]

\* rng() * Math.PI * 2 on the grid of angles: value / 2^32 * TwoPi, the top
\* three bits of the word
angleOf(value) == (value[1] * TwoPi) \div Half

\* modes.js generateDailyPattern: the for loop pushing rng() * Math.PI * 2
RECURSIVE pushGapCenters(_, _, _)
pushGapCenters(seed, i, length) ==
  IF i >= length THEN << >>
  ELSE LET r == mulberry32(seed)
       IN  <<angleOf(r.value)>> \o pushGapCenters(r.seed, i + 1, length)

generateDailyPattern(dateId, length) ==
  LET centers == pushGapCenters(dateToSeed(dateId), 0, length)
  IN  [dateId |-> dateId, length |-> length,
       gapCenters |-> [k \in 0..(length - 1) |-> centers[k + 1]]]

\* the dates of the executions compared, and the date of the session
DateIds == { getTodayId([year |-> 2026, month |-> 11, day |-> d]) : d \in {4, 5} }
TodayId == getTodayId([year |-> 2026, month |-> 11, day |-> 4])

\* modes.js getDailyPattern(version, dateId) without a cached entry: the
\* patterns of the dates, generated once
PatternOf == [d \in DateIds |-> generateDailyPattern(d, DAILY_LENGTH)]

\* the entries the cache can hold for a date: none, or the JSON value
\* stored under the key (null, an object without gapCenters, an object with
\* an empty gapCenters array, the pattern an earlier session generated)
CachedEntries ==
  { NoEntry, NoPattern,
    [dateId |-> TodayId, length |-> DAILY_LENGTH],
    [dateId |-> TodayId, length |-> 0, gapCenters |-> << >>],
    PatternOf[TodayId] }

\* modes.js getDailyPattern(version, dateId): if (cached) return
\* JSON.parse(cached); otherwise generateDailyPattern(dateId, 50)
getDailyPattern(cached, dateId) ==
  IF cached # NoEntry THEN cached ELSE PatternOf[dateId]

\* modes.js getDailyGapCenter: the fallback Math.random() * Math.PI * 2 (rnd)
\* if the pattern or its gapCenters is missing; otherwise
\* gapCenters[ringIndex % gapCenters.length], where ringIndex % 0 is NaN and
\* the read at NaN gives undefined
getDailyGapCenter(pattern, ringIndex, rnd) ==
  IF pattern = NoPattern \/ "gapCenters" \notin DOMAIN pattern THEN rnd
  ELSE IF DOMAIN pattern.gapCenters = {} THEN Undefined
  ELSE pattern.gapCenters[ringIndex % Cardinality(DOMAIN pattern.gapCenters)]

(* ------------------------------- rings -------------------------------- *)
ringParamsForIndex(i, d, exp, mode) ==
  LET gapWidth == IF exp THEN GAP_WIDTH_EXPERT ELSE GAP_WIDTH_NORMAL
      gapCenter == IF mode = "daily" /\ dailyPattern # NoPattern
                   THEN getDailyGapCenter(dailyPattern, i, d.gapCenter)
                   ELSE d.gapCenter
      \* sign * rand(min, max) * (1 + i * RING_SPEED_INCREASE), 0.06 per index
      baseRotSpeed == RoundDiv(d.rot * (100 + 6 * i), 100)
      rotSpeed == Min(Abs(baseRotSpeed), RING_SPEED_ABSOLUTE_MAX) * Sign(baseRotSpeed)
      hasObstacle == (i >= OBSTACLE_FROM) /\ d.obstacle
      minSeparation == Pi \div 2
      maxSeparation == TwoPi - gapWidth - minSeparation
      obstacleAngle == IF hasObstacle
                       THEN minSeparation + d.sep * (maxSeparation - minSeparation)
                       ELSE 0
      finalRotSpeed == IF hasObstacle THEN RoundDiv(rotSpeed, 2) ELSE rotSpeed
  IN  [gapCenter |-> gapCenter, gapWidth |-> gapWidth, rotSpeed |-> finalRotSpeed,
       drift |-> 0, hasObstacle |-> hasObstacle, obstacleAngle |-> obstacleAngle]

ensureRing(rs, i, draws, exp, mode) ==
  IF i \in DOMAIN rs THEN rs
  ELSE [k \in (DOMAIN rs) \cup {i} |->
          IF k = i THEN ringParamsForIndex(i, draws[i], exp, mode) ELSE rs[k]]

\* pruneRings without the test k < start
pruneRings_keepPast(rs, escaped) ==
  [k \in {j \in DOMAIN rs : ~(j > escaped + WINDOW_FUTURE)} |-> rs[k]]

pruneRings(rs, escaped) ==
  LET start == Max(0, escaped - WINDOW_PAST)
      end   == escaped + WINDOW_FUTURE
  IN  [k \in {j \in DOMAIN rs : ~(j < start \/ j > end)} |-> rs[k]]

RECURSIVE ensureFrom(_, _, _, _, _, _)
ensureFrom(rs, i, end, draws, exp, mode) ==
  IF i > end THEN rs
  ELSE ensureFrom(ensureRing(rs, i, draws, exp, mode), i + 1, end, draws, exp, mode)

ensureWindow(rs, escaped, draws, exp, mode) ==
  LET start == Max(0, escaped - WINDOW_PAST)
      end   == escaped + WINDOW_FUTURE
  IN  pruneRings(ensureFrom(rs, start, end, draws, exp, mode), escaped)

effectiveGapWidth(r) == clamp(r.gapWidth, GAP_WIDTH_MIN, GAP_WIDTH_MAX)

\* d <= gw / 2 of the escape test
aligned(ballAngle, r) ==
  2 * Abs(angDiff(ballAngle, r.gapCenter)) <= effectiveGapWidth(r)


(* ----------------------------- run flow ------------------------------- *)
\* the state object as the script creates it (const state = {...})
InitialState ==
  [ rings |-> << >>, escaped |-> 0, ballAngle |-> 0, ballDir |-> 1,
    score |-> 0, chain |-> 1, chainTimer |-> 0,
    timeSinceLastEscape |-> TIME_SINCE_ESCAPE_INIT,
    pressure |-> 0, criticalActive |-> FALSE, criticalStartTime |-> 0,
    criticalElapsed |-> 0, criticalWindow |-> 0,
    timeInRing |-> 0, maxRingTime |-> MAX_RING_TIME_NORMAL,
    pendingEscapes |-> << >>, escapeTweenProgress |-> 0,
    escapeTweenDuration |-> 0, escapeTargetEscaped |-> 0,
    runStats |-> [maxChain |-> 1, criticalEntries |-> 0, criticalEscapes |-> 0],
    lastTapTime |-> 0, tapsInWindow |-> << >>,
    mode |-> "endless", sprintCompleted |-> FALSE, dailyCompleted |-> FALSE ]

\* a frame of the interpreter: the state object, `running`, and what the
\* call has done so far (reason passed to endGame, ring indices created,
\* telemetry events logged)
Frame(s, run, reason, created, events) ==
  [s |-> s, running |-> run, reason |-> reason, created |-> created, events |-> events]

\* the reset that leaves the chain and its timer as they are
resetGame_keepChain(s, ball, draws, exp, grp, cur, t) ==
  [ s EXCEPT
      !.rings = ensureWindow(<< >>, 0, draws, exp, cur),
      !.escaped = 0, !.ballAngle = ball, !.ballDir = 1,
      !.score = 0,
      !.timeSinceLastEscape = TIME_SINCE_ESCAPE_INIT,
      !.pressure = 0, !.criticalActive = FALSE, !.criticalStartTime = 0,
      !.criticalElapsed = 0, !.criticalWindow = criticalWindowOf(grp),
      !.timeInRing = 0,
      !.maxRingTime = IF exp THEN MAX_RING_TIME_EXPERT ELSE MAX_RING_TIME_NORMAL,
      !.pendingEscapes = << >>, !.escapeTweenProgress = 0,
      !.escapeTweenDuration = 0, !.escapeTargetEscaped = 0,
      !.mode = cur, !.sprintCompleted = FALSE, !.dailyCompleted = FALSE,
      !.runStats = [maxChain |-> 1, criticalEntries |-> 0, criticalEscapes |-> 0],
      !.lastTapTime = 0, !.tapsInWindow = << >> ]

\* resetGame(), with the draws of its ensureWindow()
resetGame(s, ball, draws, exp, grp, cur, t) ==
  [ s EXCEPT
      !.rings = ensureWindow(<< >>, 0, draws, exp, cur),
      !.escaped = 0, !.ballAngle = ball, !.ballDir = 1,
      !.score = 0, !.chain = 1, !.chainTimer = 0,
      !.timeSinceLastEscape = TIME_SINCE_ESCAPE_INIT,
      !.pressure = 0, !.criticalActive = FALSE, !.criticalStartTime = 0,
      !.criticalElapsed = 0, !.criticalWindow = criticalWindowOf(grp),
      !.timeInRing = 0,
      !.maxRingTime = IF exp THEN MAX_RING_TIME_EXPERT ELSE MAX_RING_TIME_NORMAL,
      !.pendingEscapes = << >>, !.escapeTweenProgress = 0,
      !.escapeTweenDuration = 0, !.escapeTargetEscaped = 0,
      !.mode = cur, !.sprintCompleted = FALSE, !.dailyCompleted = FALSE,
      !.runStats = [maxChain |-> 1, criticalEntries |-> 0, criticalEscapes |-> 0],
      !.lastTapTime = 0, !.tapsInWindow = << >> ]

\* telemetry.logRunEnd(summary): log('run_end', { the seven fields })
logRunEnd(summary) ==
  [ name |-> "run_end", mode |-> summary.mode, rings |-> summary.rings,
    cause |-> summary.cause, time_ms |-> summary.time_ms,
    max_chain |-> summary.max_chain,
    critical_entries |-> summary.critical_entries,
    critical_escapes |-> summary.critical_escapes ]

\* the events endGame(reason) logs at time t (runStartTime is 0)
endGameEvents(s, reason, t) ==
  << logRunEnd([ mode |-> s.mode, rings |-> s.score, cause |-> reason, time_ms |-> t,
                 max_chain |-> s.runStats.maxChain,
                 critical_entries |-> s.runStats.criticalEntries,
                 critical_escapes |-> s.runStats.criticalEscapes ]) >>

\* endGame(reason): running = false; the state object is left as it is;
\* the run summary is logged last
endGame(s, reason, created, t) ==
  Frame(s, FALSE, reason, created, endGameEvents(s, reason, t))

\* handleModeCompletion() that shows the result and leaves the run going
handleModeCompletion_keepsRunning(s, created, t) ==
  Frame(s, TRUE, "none", created, << >>)

\* handleModeCompletion(): running = false; the only event logged is
\* telemetry.log('sprint_complete' | 'daily_complete', { time_ms, rings })
handleModeCompletion(s, created, t) ==
  LET name == IF s.sprintCompleted THEN "sprint_complete" ELSE "daily_complete"
  IN  Frame(s, FALSE, name, created,
            << [name |-> name, time_ms |-> t, rings |-> s.score] >>)

(* -------------------------------- tap --------------------------------- *)
\* the tap pressure without the spam multiplier
tapPressure_flat(tapsInLastSecond) == pressureTapRate

\* the spam multiplier times pressureTapRate
tapPressure(tapsInLastSecond) ==
  IF tapsInLastSecond > SPAM_FREE_TAPS
  THEN RoundDiv(pressureTapRate * (10 + (tapsInLastSecond - SPAM_FREE_TAPS) * SPAM_STEP_TENTHS), 10)
  ELSE pressureTapRate

\* the tap that also enters the critical orbit at the threshold
onTapState_enter(s, t) ==
  LET p == clamp(s.pressure + tapPressure(Len(s.tapsInWindow) + 1), 0, PressureOne)
  IN  [ s EXCEPT
          !.ballDir = -s.ballDir,
          !.tapsInWindow = Append(s.tapsInWindow, t),
          !.pressure = p,
          !.criticalActive = @ \/ p >= criticalThreshold,
          !.criticalStartTime = IF ~s.criticalActive /\ p >= criticalThreshold THEN t ELSE @,
          !.lastTapTime = t ]

onTapState(s, t) ==
  LET kept == SelectSeq(s.tapsInWindow, LAMBDA x : t - x < TAP_WINDOW)
      taps == Append(kept, t)
  IN  [ s EXCEPT
          !.ballDir = -s.ballDir,
          !.tapsInWindow = taps,
          !.pressure = clamp(s.pressure + tapPressure(Len(taps)), 0, PressureOne),
          !.lastTapTime = t ]


(* -------------------------------- step -------------------------------- *)
Created(before, after) == (DOMAIN after) \ (DOMAIN before)

\* Math.min(baseSpeed + state.score * speedIncrease, BALL_SPEED_MAX)
baseFast(score, exp) ==
  Min((IF exp THEN BALL_SPEED_BASE_EXPERT ELSE BALL_SPEED_BASE_NORMAL)
        + score \div BALL_SPEED_PER_SCORES, BALL_SPEED_MAX)

\* state.ballDir * state.orbitSpeed * dt with
\* orbitSpeed = baseFast * lerp(1.00, 0.45, state.pressure); the slowed
\* ball keeps moving, so the product is rounded up to the grid
ballDelta(s, dt, exp) ==
  s.ballDir * CeilDiv(baseFast(s.score, exp)
                        * (100 * PressureOne - (100 - SLOW_FACTOR_MIN_PCT) * s.pressure) * dt,
                      100 * PressureOne)

\* for(const r of state.rings.values()) r.gapCenter = (...) % (Math.PI*2);
\* the jitter (Math.random()-0.5) * r.drift is 0 on the grid
rotateRings(rs, dt) ==
  [k \in DOMAIN rs |-> [rs[k] EXCEPT !.gapCenter = Rem(@ + (rs[k].rotSpeed + rs[k].drift) * dt, TwoPi)]]

\* the ring time limit that does not shrink with the score
timeLimit100_flat(s, exp) == 100 * s.maxRingTime

\* Math.max(2.6, state.maxRingTime - state.score * (expert ? 0.08 : 0.06)), in hundredths
timeLimit100(s, exp) ==
  Max(100 * RING_TIME_FLOOR,
      100 * s.maxRingTime
        - s.score * (IF exp THEN RING_TIME_PER_SCORE_EXPERT ELSE RING_TIME_PER_SCORE_NORMAL))

\* the detection loop with `continue` in the place of `break`
RECURSIVE detectChain_skip(_, _, _, _, _, _, _)
detectChain_skip(rs, i, escaped, ballAngle, draws, exp, mode) ==
  IF i >= maxChainCheck THEN [rings |-> rs, alignedRings |-> << >>]
  ELSE LET ringIndex == escaped + i
           rs1 == ensureRing(rs, ringIndex, draws, exp, mode)
           rest == detectChain_skip(rs1, i + 1, escaped, ballAngle, draws, exp, mode)
       IN  [rings |-> rest.rings,
            alignedRings |-> IF aligned(ballAngle, rs1[ringIndex])
                             THEN <<ringIndex>> \o rest.alignedRings
                             ELSE rest.alignedRings]

\* the for loop of the escape detection: rings ensured, aligned prefix
RECURSIVE detectChain(_, _, _, _, _, _, _)
detectChain(rs, i, escaped, ballAngle, draws, exp, mode) ==
  IF i >= maxChainCheck THEN [rings |-> rs, alignedRings |-> << >>]
  ELSE LET ringIndex == escaped + i
           rs1 == ensureRing(rs, ringIndex, draws, exp, mode)
       IN  IF aligned(ballAngle, rs1[ringIndex])
           THEN LET rest == detectChain(rs1, i + 1, escaped, ballAngle, draws, exp, mode)
                IN  [rings |-> rest.rings,
                     alignedRings |-> <<ringIndex>> \o rest.alignedRings]
           ELSE [rings |-> rs1, alignedRings |-> << >>]

\* escapeTweenDuration of a chain of k rings
tweenDuration(k, exp) ==
  IF k > 1
  THEN Min((IF exp THEN TWEEN_MULTI_EXPERT ELSE TWEEN_MULTI_NORMAL) + (k - 1) * TWEEN_PER_RING,
           TWEEN_CAP)
  ELSE IF exp THEN TWEEN_SINGLE_EXPERT ELSE TWEEN_SINGLE_NORMAL

\* the critical escape that is not counted
escapePressure_uncounted(s) ==
  IF s.criticalActive
  THEN [s EXCEPT !.pressure = 0, !.criticalActive = FALSE, !.criticalElapsed = 0]
  ELSE [s EXCEPT !.pressure = Max(0, s.pressure - partialResetAmount)]

\* the escape with the partial reset in both branches
escapePressure_partial(s) ==
  [s EXCEPT !.pressure = Max(0, s.pressure - partialResetAmount)]

\* the escape with the full reset of the pressure in both branches
escapePressure_zero(s) ==
  IF s.criticalActive
  THEN [s EXCEPT !.pressure = 0, !.criticalActive = FALSE,
                 !.criticalElapsed = 0,
                 !.runStats.criticalEscapes = @ + 1]
  ELSE [s EXCEPT !.pressure = 0]

\* if(state.criticalActive){ critical escape } else { partial reset }
escapePressure(s) ==
  IF s.criticalActive
  THEN [s EXCEPT !.pressure = 0, !.criticalActive = FALSE,
                 !.criticalElapsed = 0,
                 !.runStats.criticalEscapes = @ + 1]
  ELSE [s EXCEPT !.pressure = Max(0, s.pressure - partialResetAmount)]

\* the score that counts an escape once, whatever the length of the chain
scoreAfterEscape_once(score, escapedThisFrame) == score + 1

\* state.score += escapedThisFrame
scoreAfterEscape(score, escapedThisFrame) == score + escapedThisFrame

\* the chain multiplier without its cap
chainAfterEscape_uncapped(chain, k) == chain + k

\* state.chain = Math.min(9, state.chain + pending.length)
chainAfterEscape(chain, k) == Min(CHAIN_MAX, chain + k)

\* if(alignedRings.length > 0){ ... }: critical / pressure, score, mode
\* flags, scheduled transition, chain
processEscape(s, alignedRings, draws, exp) ==
  LET k == Len(alignedRings)
      s1 == escapePressure(s)
      score1 == scoreAfterEscape(s.score, k)
      done == finiteTarget(s.mode) # 0 /\ score1 >= finiteTarget(s.mode)
      s2 == [s1 EXCEPT !.score = score1, !.timeInRing = 0, !.timeSinceLastEscape = 0,
                       !.sprintCompleted = @ \/ (done /\ s.mode = "sprint"),
                       !.dailyCompleted = @ \/ (done /\ s.mode = "daily")]
      chain1 == chainAfterEscape(s.chain, k)
      s3 == [s2 EXCEPT !.pendingEscapes = alignedRings,
                       !.escapeTweenDuration = tweenDuration(k, exp),
                       !.escapeTweenProgress = 0,
                       !.escapeTargetEscaped = s.escaped + k,
                       !.chainTimer = CHAIN_TIME * k,
                       !.chain = chain1,
                       !.runStats.maxChain = Max(@, chain1)]
  IN  IF k > 1 THEN s3
      ELSE [s3 EXCEPT !.rings = ensureWindow(s3.rings, s3.escaped, draws, exp, s.mode)]

\* step, from the chain timer to the end
stepEscape(s, dt, t, draws, exp, created) ==
  LET chainTimer1 == Max(0, s.chainTimer - dt)
      s1 == [s EXCEPT !.chainTimer = chainTimer1,
                      !.chain = IF chainTimer1 = 0 THEN 1 ELSE @]
      det == detectChain(s1.rings, 0, s1.escaped, s1.ballAngle, draws, exp, s1.mode)
      s2 == IF s1.pendingEscapes # << >> THEN s1
            ELSE IF det.alignedRings = << >> THEN [s1 EXCEPT !.rings = det.rings]
            ELSE processEscape([s1 EXCEPT !.rings = det.rings], det.alignedRings, draws, exp)
      created1 == created \cup Created(s1.rings, IF s1.pendingEscapes # << >> THEN s1.rings ELSE det.rings)
      s3 == [s2 EXCEPT !.rings = ensureWindow(s2.rings, s2.escaped, draws, exp, s2.mode)]
      created2 == created1 \cup Created(s2.rings, s3.rings)
  IN  IF s3.sprintCompleted \/ s3.dailyCompleted
      THEN handleModeCompletion(s3, created2, t)
      ELSE Frame(s3, TRUE, "none", created2, << >>)

\* the progress that never advances
tweenProgress_stuck(s, dt) == s.escapeTweenProgress

\* state.escapeTweenProgress += dt / state.escapeTweenDuration, clamped to
\* [0, 1], while escapes are pending
tweenProgress(s, dt) ==
  IF s.pendingEscapes # << >>
  THEN clamp(s.escapeTweenProgress + (dt * ProgressOne) \div s.escapeTweenDuration,
             0, ProgressOne)
  ELSE s.escapeTweenProgress

\* the commit taken in the first tick of the transition
tweenComplete_early(s, dt) == s.pendingEscapes # << >>

\* if(state.escapeTweenProgress >= 1.0), inside if(state.pendingEscapes.length > 0)
tweenComplete(s, dt) ==
  s.pendingEscapes # << >> /\ tweenProgress(s, dt) >= ProgressOne

\* the collision check that looks at every ring of the store
obstacleCollision_anyRing(rs, escaped, ballAngle, tri) ==
  \E k \in DOMAIN rs :
    /\ rs[k].hasObstacle
    /\ 2 * Abs(angDiff(ballAngle, rs[k].gapCenter + rs[k].obstacleAngle)) <= tri

\* const currentRing = state.rings.get(state.escaped);
\* if(currentRing && currentRing.hasObstacle){ ... obsDiff <= triangleAngleWidth * 0.5 }
obstacleCollision(rs, escaped, ballAngle, tri) ==
  /\ escaped \in DOMAIN rs
  /\ rs[escaped].hasObstacle
  /\ 2 * Abs(angDiff(ballAngle, rs[escaped].gapCenter + rs[escaped].obstacleAngle)) <= tri

\* the obstacle and the ring time limit never end the run
moveOutcome_never(hit, late) == "none"

\* the ring time limit looked at before the obstacle
moveOutcome_timeFirst(hit, late) ==
  IF late THEN "time" ELSE IF hit THEN "obstacle" ELSE "none"

\* if(obsDiff <= ...){ endGame('obstacle'); return; } ...
\* if(state.timeInRing > timeLimit){ endGame('time'); return; }
moveOutcome(hit, late) ==
  IF hit THEN "obstacle" ELSE IF late THEN "time" ELSE "none"

\* the rings that turn during a transition as well
ringsFrozen_never(s) == FALSE

\* if(state.pendingEscapes.length === 0){ rotate } : the rings are frozen
\* while a transition is pending
ringsFrozen(s) == s.pendingEscapes # << >>

\* step, from the ring rotation to the ring time limit
stepMove(s, dt, t, draws, tri, exp, created) ==
  LET rings1 == IF ringsFrozen(s) THEN s.rings ELSE rotateRings(s.rings, dt)
      ball1 == Rem(s.ballAngle + ballDelta(s, dt, exp), TwoPi)
      progress1 == tweenProgress(s, dt)
      complete == tweenComplete(s, dt)
      s1 == [s EXCEPT !.rings = rings1, !.ballAngle = ball1, !.escapeTweenProgress = progress1]
      s2 == IF complete
            THEN [s1 EXCEPT !.escaped = s.escapeTargetEscaped,
                            !.pendingEscapes = << >>,
                            !.escapeTweenProgress = 0,
                            !.rings = ensureWindow(rings1, s.escapeTargetEscaped, draws, exp, s.mode)]
            ELSE s1
      created1 == created \cup Created(rings1, s2.rings)
      s3 == [s2 EXCEPT !.timeSinceLastEscape = @ + dt, !.timeInRing = @ + dt]
      outcome == moveOutcome(obstacleCollision(s2.rings, s2.escaped, s2.ballAngle, tri),
                             100 * s3.timeInRing > timeLimit100(s3, exp))
  IN  IF outcome = "obstacle" THEN endGame(s2, "obstacle", created1, t)
      ELSE IF outcome = "time" THEN endGame(s3, "time", created1, t)
      ELSE stepEscape(s3, dt, t, draws, exp, created1)

\* the critical window never fails the run
criticalTimedOut_never(s) == FALSE

\* the comparison with > in the place of >=
criticalTimedOut_strict(s) == s.criticalActive /\ s.criticalElapsed > s.criticalWindow

\* if(state.criticalElapsed >= state.criticalWindow), inside if(state.criticalActive)
criticalTimedOut(s) == s.criticalActive /\ s.criticalElapsed >= s.criticalWindow

\* the entry that is taken again in every tick at or above the threshold
criticalEnters_again(s, p) == p >= criticalThreshold

\* if(!state.criticalActive && state.pressure >= abParams.criticalThreshold)
criticalEnters(s, p) == ~s.criticalActive /\ p >= criticalThreshold

\* step(dt), t = performance.now() of this frame
step(s, dt, t, draws, tri, exp) ==
  LET rings0 == ensureWindow(s.rings, s.escaped, draws, exp, s.mode)
      p1 == clamp(s.pressure + pressureTimeRate * dt, 0, PressureOne)
      pressureDecay == IF exp THEN PRESSURE_DECAY_EXPERT ELSE PRESSURE_DECAY_NORMAL
      p2 == clamp(p1 - pressureDecay * dt, 0, PressureOne)
      enter == criticalEnters(s, p2)
      s1 == [s EXCEPT !.rings = rings0, !.pressure = p2,
                      !.criticalActive = @ \/ enter,
                      !.criticalStartTime = IF enter THEN t ELSE @,
                      !.runStats.criticalEntries = IF enter THEN @ + 1 ELSE @]
      s2 == IF s1.criticalActive
            THEN [s1 EXCEPT !.criticalElapsed = t - s1.criticalStartTime]
            ELSE s1
      created0 == Created(s.rings, rings0)
  IN  IF criticalTimedOut(s2)
      THEN endGame(s2, "pressure_fail", created0, t)
      ELSE stepMove(s2, dt, t, draws, tri, exp, created0)


(* ------------------------------ actions ------------------------------- *)
\* the ring indices a step taken with this dt may have to create
CandIdx(s, dt) ==
  LET commits == tweenComplete(s, dt)
      e == IF commits THEN s.escapeTargetEscaped ELSE s.escaped
      detects == s.pendingEscapes = << >> \/ commits
      hi == e + (IF detects THEN maxChainCheck - 1 ELSE WINDOW_FUTURE)
  IN  (Max(0, s.escaped - WINDOW_PAST) .. hi) \ (DOMAIN s.rings)

(* ------------------- the player's data and cohort -------------------- *)
\* a variable that holds null (let playerData = null; loadRaw returns null)
NoPlayerData == [isNull |-> TRUE]
\* abGroup: null of PLAYER_DATA_TEMPLATE
JsNull == "null"
PV02_VERSION == "pv02.2"
\* the version of an earlier release (the example of migrateVersion)
OLD_VERSION == "pv02.1"
Cohorts == {"A", "B"}

\* the fields of the template followed here, a nested one under the name of
\* its leaf: version, abGroup, stats.totalRuns, bestScore.endless
PLAYER_DATA_TEMPLATE ==
  [version |-> PV02_VERSION, abGroup |-> JsNull, totalRuns |-> 0, bestScore |-> 0]

\* localStorage before the first session
EmptyStorage == [po_data |-> NoEntry, v1_best |-> << >>]

\* what localStorage answers: every call works, setItem throws (the quota
\* is exceeded), every call throws (the access is denied)
StorageAccess == {"ok", "quota", "denied"}

\* result = {...a}; for key in b: a leaf of b that is not undefined (null
\* included) replaces the leaf of a; nested objects are merged leaf by leaf
deepMerge(a, b) ==
  [key \in (DOMAIN a) \cup (DOMAIN b) |-> IF key \in DOMAIN b THEN b[key] ELSE a[key]]

\* try { raw = getItem(PO_DATA_KEY); if (raw) return JSON.parse(raw) }
\* catch {}; return null
loadRaw(ls, access) ==
  IF access = "denied" \/ ls.po_data = NoEntry THEN NoPlayerData ELSE ls.po_data

\* migrated = {}; if (v1Best !== null) migrated.bestScore.endless = v1Best
migrateV1(ls) ==
  IF ls.v1_best # << >> THEN [bestScore |-> ls.v1_best[1]] ELSE << >>

\* return data
migrateVersion(data, fromVersion) == data

\* try { setItem(PO_DATA_KEY, JSON.stringify(data)); return true }
\* catch { return false }: the storage after the call
savePlayerData(ls, data, access) ==
  IF access = "ok" THEN [ls EXCEPT !.po_data = data] ELSE ls

\* Math.random() < 0.5 ? 'A' : 'B', rnd in halves
AbDraws == {0, 1}
assignABGroup(rnd) == IF rnd < 1 THEN "A" ELSE "B"

\* if (!playerData.abGroup) playerData.abGroup = assignABGroup()
ensureABGroup(playerData, rnd) ==
  IF playerData.abGroup = JsNull
  THEN [playerData EXCEPT !.abGroup = assignABGroup(rnd)]
  ELSE playerData

\* initPlayerData() while getItem works: the data returned and the storage
\* after its savePlayerData
initPlayerData(ls, access) ==
  LET existing == loadRaw(ls, access)
      v1Exists == ls.v1_best # << >>
      migrated == IF v1Exists /\ existing = NoPlayerData THEN migrateV1(ls) ELSE << >>
      merged == deepMerge(PLAYER_DATA_TEMPLATE,
                          IF existing # NoPlayerData THEN existing ELSE migrated)
      moved == IF /\ existing # NoPlayerData
                  /\ "version" \in DOMAIN existing
                  /\ existing.version # PV02_VERSION
               THEN migrateVersion(merged, existing.version)
               ELSE merged
      playerData == [moved EXCEPT !.version = PV02_VERSION]
  IN  [data |-> playerData, ls |-> savePlayerData(ls, playerData, access)]

(* ------------------------------ XP system ------------------------------ *)
RECURSIVE Power(_, _)
Power(b, e) == IF e = 0 THEN 1 ELSE b * Power(b, e - 1)

\* Math.floor(120 * Math.pow(1.35, level - 1)), 1.35 = 27 / 20
getXPToNextLevel(level) == (120 * Power(27, level - 1)) \div Power(20, level - 1)

\* COSMETICS with unlockType 'level': trail_sparkle 2, theme_neon 5,
\* trail_neon 8, theme_ocean 12, trail_cosmic 15
LevelCosmetics ==
  { [id |-> "trail_sparkle", unlockValue |-> 2], [id |-> "theme_neon", unlockValue |-> 5],
    [id |-> "trail_neon", unlockValue |-> 8], [id |-> "theme_ocean", unlockValue |-> 12],
    [id |-> "trail_cosmic", unlockValue |-> 15] }

\* checkLevelUnlocks(playerData, level): the cosmetics pushed
checkLevelUnlocks(cosmetics, level) ==
  {c.id : c \in {x \in LevelCosmetics : x.unlockValue = level}} \ cosmetics

\* the check for a level-up made once
levelUps_once(p) ==
  IF p.xp >= getXPToNextLevel(p.level)
  THEN [p EXCEPT !.xp = @ - getXPToNextLevel(p.level),
                 !.level = @ + 1,
                 !.cosmetics = @ \cup checkLevelUnlocks(@, p.level + 1),
                 !.levelsGained = Append(@, p.level + 1)]
  ELSE p

\* while (true) { if (xp >= xpNeeded) { xp -= xpNeeded; level++;
\* levelsGained.push(level); unlocks } else break }
RECURSIVE levelUps(_)
levelUps(p) ==
  IF p.xp >= getXPToNextLevel(p.level)
  THEN levelUps([p EXCEPT !.xp = @ - getXPToNextLevel(p.level),
                          !.level = @ + 1,
                          !.cosmetics = @ \cup checkLevelUnlocks(@, p.level + 1),
                          !.levelsGained = Append(@, p.level + 1)])
  ELSE p

\* addXP(playerData, xpToAdd): playerData.xp += xpToAdd, then the level-ups;
\* levelsGained is the list it returns
addXP(p, xpToAdd) ==
  levelUps([p EXCEPT !.xp = @ + xpToAdd, !.levelsGained = << >>])

(* ------------------------------ missions ------------------------------- *)
\* booleanMissionTypes of updateMissionProgress
BooleanMissionTypes ==
  {"daily_participate", "sprint_participate", "avoid_death_cause",
   "play_all_modes", "sprint_time_under"}

\* the missions that are never skipped
missionSkipped_never(mission) == FALSE

\* if (mission.completed) continue;
missionSkipped(mission) == mission.completed

\* switch (mission.type): mission.progress after the case of the type
missionSwitch(mission, eventType, eventData) ==
  CASE mission.type = "best_score" ->
         IF eventType = "run_end" /\ eventData.rings > mission.progress
         THEN eventData.rings ELSE mission.progress
    [] mission.type = "chain_at_least" ->
         IF eventType = "chain_reached" /\ eventData.chain >= mission.target
         THEN mission.target ELSE mission.progress
    [] mission.type = "survive_seconds" ->
         IF eventType = "run_end" /\ eventData.time_ms >= 1000 * mission.target
         THEN mission.target ELSE mission.progress
    [] mission.type = "critical_escapes_single_run" ->
         IF eventType = "run_end" /\ eventData.critical_escapes >= mission.target
         THEN mission.target ELSE mission.progress
    [] mission.type = "avoid_death_cause" ->
         IF /\ eventType = "run_end"
            /\ eventData.cause # mission.deathCause
            /\ eventData.rings > 0
         THEN 1 ELSE mission.progress
    [] mission.type = "daily_participate" ->
         IF eventType = "run_start" /\ eventData.mode = "daily"
         THEN 1 ELSE mission.progress
    [] mission.type = "daily_complete" ->
         IF eventType = "daily_complete" THEN 1 ELSE mission.progress
    [] mission.type = "sprint_participate" ->
         IF eventType = "run_start" /\ eventData.mode = "sprint"
         THEN 1 ELSE mission.progress
    [] mission.type = "sprint_complete" ->
         IF eventType = "sprint_complete" THEN 1 ELSE mission.progress
    [] mission.type = "daily_streak" ->
         IF eventType = "daily_streak_updated" /\ eventData.streak >= mission.target
         THEN mission.target ELSE mission.progress
    [] mission.type = "endless_score" ->
         IF /\ eventType = "run_end"
            /\ eventData.mode = "endless"
            /\ eventData.rings >= mission.target
         THEN mission.target ELSE mission.progress
    [] mission.type = "play_all_modes" ->
         IF eventType = "modes_played_updated" /\ eventData.modesPlayed >= 3
         THEN 1 ELSE mission.progress
    [] mission.type = "sprint_time_under" ->
         IF eventType = "sprint_complete" /\ eventData.time_ms < mission.target
         THEN 1 ELSE mission.progress
    [] OTHER -> mission.progress

\* shouldIncrement after the switch: 'runs' on run_end, 'rings_total' on
\* ring_escape
shouldIncrement(mission, eventType) ==
  \/ mission.type = "runs" /\ eventType = "run_end"
  \/ mission.type = "rings_total" /\ eventType = "ring_escape"

\* incrementAmount: eventData.count || 1 for 'rings_total', else 1
incrementAmount(mission, eventType, eventData) ==
  IF mission.type = "rings_total" /\ eventType = "ring_escape" /\ eventData.count # 0
  THEN eventData.count
  ELSE 1

\* the body of the loop for one mission that is not skipped: the switch,
\* the target of a boolean mission without one (a missing target is 0 here:
\* !mission.target), the increment, the completion check.  `pushed` says
\* that the mission was pushed on the list the call returns.
missionBody(mission, eventType, eventData) ==
  LET progress1 == missionSwitch(mission, eventType, eventData)
      target1 == IF mission.type \in BooleanMissionTypes /\ mission.target = 0
                 THEN 1 ELSE mission.target
      progress2 == IF shouldIncrement(mission, eventType)
                   THEN Min(progress1 + incrementAmount(mission, eventType, eventData),
                            target1)
                   ELSE progress1
      done == ~mission.completed /\ progress2 >= target1
  IN  [ mission |-> [mission EXCEPT !.progress = progress2, !.target = target1,
                                    !.completed = @ \/ done],
        pushed |-> done ]

\* one turn of for (const mission of missions)
updateMission(mission, eventType, eventData) ==
  IF missionSkipped(mission)
  THEN [mission |-> mission, pushed |-> FALSE]
  ELSE missionBody(mission, eventType, eventData)

\* the missions pushed, in the order of the list
RECURSIVE pushedFrom(_, _)
pushedFrom(turns, i) ==
  IF i > Len(turns) THEN << >>
  ELSE (IF turns[i].pushed THEN << turns[i].mission >> ELSE << >>)
       \o pushedFrom(turns, i + 1)

\* updateMissionProgress(missions, eventType, eventData): the list after the
\* call (the missions are updated in place) and the list returned
updateMissionProgress(missions, eventType, eventData) ==
  LET turns == [i \in DOMAIN missions |->
                  updateMission(missions[i], eventType, eventData)]
  IN  [ missions |-> [i \in DOMAIN missions |-> turns[i].mission],
        completed |-> pushedFrom(turns, 1) ]

\* the ids of a list of missions
missionIds(missions) == [i \in DOMAIN missions |-> missions[i].id]

\* how many times each mission was on a list that was returned
countReturned(reported, completed) ==
  [id \in DOMAIN reported |->
     reported[id] + Cardinality({i \in DOMAIN completed : completed[i].id = id})]

(* ----------------------- progression of the runs ----------------------- *)
\* Math.floor(15 * Math.sqrt(rings))
baseXp(rings) ==
  CHOOSE k \in 0..(15 * rings) : k * k <= 225 * rings /\ (k + 1) * (k + 1) > 225 * rings

\* the total of calculateRunXP(summary): baseXp + (maxChain || 1) * 20
\* + criticalEscapes * 30 + (sprintWin ? 80 : 0)
calculateRunXP(summary) ==
  baseXp(summary.rings)
  + (IF summary.maxChain = 0 THEN 1 ELSE summary.maxChain) * 20
  + summary.criticalEscapes * 30
  + (IF summary.sprintWin THEN 80 ELSE 0)

\* achievementsCache once loadAchievements() has run: one achievement per
\* type decided by the run or by the player's totals
Achievements ==
  { [id |-> "rings_1", type |-> "rings", threshold |-> 1, xp |-> 20],
    [id |-> "chain_3", type |-> "maxChain", threshold |-> 3, xp |-> 30],
    [id |-> "critical_1", type |-> "criticalEscapes", threshold |-> 1, xp |-> 40],
    [id |-> "sprint_1", type |-> "sprintComplete", threshold |-> 0, xp |-> 50],
    [id |-> "level_2", type |-> "level", threshold |-> 2, xp |-> 0],
    [id |-> "runs_2", type |-> "totalRuns", threshold |-> 2, xp |-> 25] }

\* switch (achievement.type): unlocked; a field the caller did not pass is
\* Undefined, and undefined >= threshold is false
achievementMet(achievement, p, runSummary) ==
  CASE achievement.type = "rings" ->
         runSummary.rings # Undefined /\ runSummary.rings >= achievement.threshold
    [] achievement.type = "maxChain" ->
         runSummary.maxChain # Undefined /\ runSummary.maxChain >= achievement.threshold
    [] achievement.type = "criticalEscapes" ->
         /\ runSummary.criticalEscapes # Undefined
         /\ runSummary.criticalEscapes >= achievement.threshold
    [] achievement.type = "sprintComplete" -> runSummary.sprintWin
    [] achievement.type = "level" -> p.level >= achievement.threshold
    [] achievement.type = "totalRuns" -> p.totalRuns >= achievement.threshold
    [] OTHER -> FALSE

\* checkAchievements(playerData, runSummary): the achievements it returns,
\* all pushed on playerData.unlocks.achievements
checkAchievements(p, runSummary) ==
  {a \in Achievements : a.id \notin p.achievements /\ achievementMet(a, p, runSummary)}

\* the sum of a number field over a set of records
RECURSIVE sumOver(_, _)
sumOver(S, field) ==
  IF S = {} THEN 0
  ELSE LET x == CHOOSE y \in S : TRUE IN x[field] + sumOver(S \ {x}, field)

\* completedMissions.reduce((sum, m) => sum + (m.reward || 0), 0)
RECURSIVE missionXpOf(_)
missionXpOf(completedMissions) ==
  IF completedMissions = << >> THEN 0
  ELSE Head(completedMissions).reward + missionXpOf(Tail(completedMissions))

\* processRunCompletion(playerData, runSummary): run XP and mission XP
\* added, achievements checked with { ...runSummary, maxChain: max_chain }
\* (its criticalEscapes is undefined), their XP added.  `rewarded` counts
\* for each mission the calls that added its reward.
processRunCompletion(p, runSummary) ==
  LET totalXp == calculateRunXP([rings |-> runSummary.rings,
                                 maxChain |-> runSummary.max_chain,
                                 criticalEscapes |-> runSummary.critical_escapes,
                                 sprintWin |-> runSummary.sprintWin])
                 + missionXpOf(runSummary.completedMissions)
      p1 == addXP(p, totalXp)
      newAchievements ==
        checkAchievements(p1, [rings |-> runSummary.rings,
                               maxChain |-> runSummary.max_chain,
                               criticalEscapes |-> Undefined,
                               sprintWin |-> runSummary.sprintWin])
      p2 == [p1 EXCEPT !.achievements = @ \cup {a.id : a \in newAchievements}]
      achievementXp == sumOver(newAchievements, "xp")
      p3 == IF achievementXp > 0
            THEN [addXP(p2, achievementXp) EXCEPT
                    !.levelsGained = p2.levelsGained \o @]
            ELSE p2
  IN  [p3 EXCEPT !.rewarded = countReturned(@, runSummary.completedMissions)]

\* the names script.js imports from ./js/progression.js
ProgressionImports ==
  {"loadAchievements", "processRunCompletion", "getAllCosmetics", "isCosmeticUnlocked",
   "selectCosmetic", "getProgressionStatus"}

\* checkMidRunAchievements(): async; a name that is not bound throws a
\* ReferenceError and the promise is rejected before anything is unlocked.
\* midRun lists the calls made by the handler: the stats passed and what
\* became of the promise.
checkMidRunAchievements(p, run, s) ==
  LET stats == [rings |-> s.score, maxChain |-> s.runStats.maxChain,
                criticalEscapes |-> s.runStats.criticalEscapes, sprintWin |-> FALSE]
  IN  IF ~run THEN p
      ELSE IF "checkAchievements" \notin ProgressionImports
      THEN [p EXCEPT !.midRun = Append(@, [stats |-> stats, promise |-> "rejected"])]
      ELSE [p EXCEPT !.achievements = @ \cup {a.id : a \in checkAchievements(p, stats)},
                     !.midRun = Append(@, [stats |-> stats, promise |-> "fulfilled"])]

\* a call updateMissionProgress(playerData.missions.active, ...) made by a
\* handler: the missions after it, the list it returned added to those of
\* the handler, the event that completed a mission
missionCall(p, eventType, eventData) ==
  LET r == updateMissionProgress(p.missions, eventType, eventData)
  IN  [p EXCEPT !.missions = r.missions,
                !.completed = @ \o missionIds(r.completed),
                !.reported = countReturned(@, r.completed),
                !.completedBy =
                   [id \in DOMAIN @ |->
                      IF \E k \in DOMAIN r.completed : r.completed[k].id = id
                      THEN eventType ELSE @[id]]]

\* what a handler starts from: nothing returned, no mid-run check made
handlerEntry(p) == [p EXCEPT !.completed = << >>, !.midRun = << >>]

\* start(): modesPlayedThisSession.add(mode), 'run_start', and
\* 'modes_played_updated' once three modes were played
startMissions(p, mode) ==
  LET p0 == [handlerEntry(p) EXCEPT !.modesPlayed = @ \cup {mode}]
      p1 == missionCall(p0, "run_start", [mode |-> mode])
  IN  IF Cardinality(p0.modesPlayed) >= 3
      THEN missionCall(p1, "modes_played_updated", [modesPlayed |-> 3])
      ELSE p1

\* endGame(reason): stats.totalRuns++, 'run_end', then
\* processRunCompletion with the list that call returned
endGameProgression(p, s, reason, t) ==
  LET p0 == [p EXCEPT !.totalRuns = @ + 1]
      r == updateMissionProgress(p0.missions, "run_end",
             [mode |-> s.mode, rings |-> s.score, cause |-> reason, time_ms |-> t,
              critical_escapes |-> s.runStats.criticalEscapes])
      p1 == missionCall(p0, "run_end",
             [mode |-> s.mode, rings |-> s.score, cause |-> reason, time_ms |-> t,
              critical_escapes |-> s.runStats.criticalEscapes])
  IN  processRunCompletion(p1,
        [rings |-> s.score, max_chain |-> s.runStats.maxChain,
         critical_escapes |-> s.runStats.criticalEscapes, time_ms |-> t,
         sprintWin |-> FALSE, completedMissions |-> r.completed])

\* handleModeCompletion(): 'sprint_complete' or 'daily_complete',
\* stats.totalRuns++, then processRunCompletion with the list returned
modeCompletionProgression(p, s, t) ==
  LET eventType == IF s.sprintCompleted THEN "sprint_complete" ELSE "daily_complete"
      eventData == IF s.sprintCompleted THEN [time_ms |-> t] ELSE << >>
      called == s.sprintCompleted \/ s.dailyCompleted
      r == updateMissionProgress(p.missions, eventType, eventData)
      p1 == IF called THEN missionCall(p, eventType, eventData) ELSE p
      p2 == [p1 EXCEPT !.totalRuns = @ + 1]
  IN  processRunCompletion(p2,
        [rings |-> s.score, max_chain |-> s.runStats.maxChain,
         critical_escapes |-> s.runStats.criticalEscapes, time_ms |-> t,
         sprintWin |-> s.sprintCompleted,
         completedMissions |-> IF called THEN r.completed ELSE << >>])

\* step(dt) from state s to the frame f at time t: an escape detected
\* (score += escapedThisFrame) calls checkMidRunAchievements() when it left
\* the critical state, 'ring_escape', and for a chain of several rings
\* 'chain_reached' and checkMidRunAchievements(); the end of the run calls
\* endGame or handleModeCompletion
stepProgression(p, s, f, t) ==
  LET escapedThisFrame == f.s.score - s.score
      critical == f.s.runStats.criticalEscapes > s.runStats.criticalEscapes
      atEscape == [f.s EXCEPT !.score = s.score,
                              !.runStats.maxChain = s.runStats.maxChain]
      p0 == handlerEntry(p)
      p1 == IF escapedThisFrame > 0 /\ critical
            THEN checkMidRunAchievements(p0, TRUE, atEscape) ELSE p0
      p2 == IF escapedThisFrame > 0
            THEN missionCall(p1, "ring_escape", [count |-> escapedThisFrame]) ELSE p1
      p3 == IF escapedThisFrame > 1
            THEN checkMidRunAchievements(
                   missionCall(p2, "chain_reached", [chain |-> f.s.chain]), TRUE, f.s)
            ELSE p2
  IN  IF f.running THEN p3
      ELSE IF f.reason \in {"sprint_complete", "daily_complete"}
      THEN modeCompletionProgression(p3, f.s, t)
      ELSE endGameProgression(p3, f.s, f.reason, t)

\* the progression left aside, or followed through the handler
followed(p, after) == IF "isNull" \in DOMAIN p THEN p ELSE after

\* the player's progression is not followed
NotFollowed == [isNull |-> TRUE]
\* js/pwa.js is not imported by script.js: no install prompt state
NoPwa == [isNull |-> TRUE]

\* after initApp(): playerData loaded, cohort assigned, nothing running
InitGame(groups, experts) ==
  /\ state = InitialState
  /\ running = FALSE
  /\ lastT = 0
  /\ now = 0
  /\ expert \in experts
  /\ currentMode = "endless"
  /\ abGroup \in groups
  /\ endReason = "none"
  /\ generated = {}
  /\ regenerated = {}
  /\ telemetryLog = << >>
  /\ resetFrom = NoReset
  \* dailyPattern = getDailyPattern(getVersion(), todayId)
  /\ dailyPattern = PatternOf[TodayId]
  /\ daily = [e \in Executions |->
                [loaded |-> FALSE, pattern |-> NoPattern, rings |-> << >>]]
  /\ player = [ls |-> EmptyStorage, playerData |-> NoPlayerData,
               sessions |-> 0, assigned |-> 0]

\* after initApp(), in the runs that leave the player's progression aside
InitWith(groups, experts) ==
  /\ InitGame(groups, experts)
  /\ progression = NotFollowed
  /\ pwa = NoPwa

\* btnStart click -> start(): resetGame(), running = true, lastT = now
start(balls, gens) ==
  /\ ~running
  /\ \E ball \in balls, draws \in [0..WINDOW_FUTURE -> gens] :
       /\ state' = resetGame(state, ball, draws, expert, abGroup, currentMode, 0)
       /\ generated' = DOMAIN state'.rings
  /\ running' = TRUE
  /\ now' = 0
  /\ lastT' = 0
  /\ endReason' = "none"
  /\ regenerated' = {}
  /\ telemetryLog' = << >>
  /\ resetFrom' = [reason |-> endReason, pending |-> state.pendingEscapes # << >>,
                   critical |-> state.criticalActive]
  /\ progression' = followed(progression, startMissions(progression, currentMode))
  /\ UNCHANGED <<expert, currentMode, abGroup, dailyPattern, daily, player, pwa>>

\* if(!running) return;   (onTap)
tapAccepted(run) == run

\* pointerdown / keydown -> onTap()
onTap(maxTaps, until) ==
  /\ now <= until
  /\ IF tapAccepted(running)
     THEN /\ Len(SelectSeq(state.tapsInWindow, LAMBDA x : now - x < TAP_WINDOW)) < maxTaps
          /\ state' = onTapState(state, now)
          /\ resetFrom' = NoReset
          /\ UNCHANGED <<running, lastT, now, expert, currentMode, abGroup, endReason,
                         generated, regenerated, telemetryLog, dailyPattern, daily, player, progression, pwa>>
     ELSE UNCHANGED vars

\* every frame steps, whatever the value of `running`
loopSteps_always(run) == TRUE

\* if(running) step(dt);   (loop)
loopSteps(run) == run

\* requestAnimationFrame(loop): dt clamp, lastT = t, step(dt) while
\* running.  A frame that arrives while the game is not running only draws;
\* such frames are followed up to the time idleUntil.
frame(gaps, gens, maxNow, maxEscaped, idleUntil) ==
  \E gap \in gaps :
    /\ now + gap <= maxNow
    /\ now' = now + gap
    /\ lastT' = now'
    /\ resetFrom' = NoReset
    /\ IF loopSteps(running)
       THEN /\ state.escaped < maxEscaped
            /\ LET dt == Min(MaxDt, now' - lastT)
               IN  \E draws \in [CandIdx(state, dt) -> gens], tri \in TriangleWidths :
                     \E f \in {step(state, dt, now', draws, tri, expert)} :
                         /\ \A i \in CandIdx(state, dt) \ f.created : draws[i] = NoDraw
                         /\ state' = f.s
                         /\ running' = f.running
                         /\ endReason' = f.reason
                         /\ generated' = generated \cup f.created
                         /\ regenerated' = regenerated \cup (f.created \cap generated)
                         /\ telemetryLog' = telemetryLog \o f.events
                         /\ progression' =
                              followed(progression,
                                       stepProgression(progression, state, f, now'))
       ELSE /\ now + gap <= idleUntil
            /\ UNCHANGED <<state, running, endReason, generated, regenerated,
                           telemetryLog, progression>>
    /\ UNCHANGED <<expert, currentMode, abGroup, dailyPattern, daily, player, pwa>>

\* the frames of the default horizon, none followed after the end of a run
loop(gaps, gens) == frame(gaps, gens, MaxNow, MaxEscaped, 0)

\* btnExpert click (between runs)
toggleExpert ==
  /\ ~running
  /\ expert' = ~expert
  /\ UNCHANGED <<state, running, lastT, now, currentMode, abGroup, endReason,
                 generated, regenerated, telemetryLog, resetFrom, dailyPattern, daily, player, progression, pwa>>

\* mode button click -> selectMode(mode); mid-run the confirmed switch
\* calls endGame('mode_switch')
selectMode(modes) ==
  \E m \in modes :
    /\ currentMode' = m
    /\ running' = FALSE
    /\ endReason' = IF running THEN "mode_switch" ELSE endReason
    /\ telemetryLog' = IF running
                       THEN telemetryLog \o endGameEvents(state, "mode_switch", now)
                       ELSE telemetryLog
    /\ resetFrom' = NoReset
    /\ progression' =
         IF running
         THEN followed(progression,
                       endGameProgression(handlerEntry(progression), state,
                                          "mode_switch", now))
         ELSE progression
    /\ UNCHANGED <<state, lastT, now, expert, abGroup, generated, regenerated,
                   dailyPattern, daily, player, pwa>>

Init == InitWith({"A", "B"}, {FALSE})

Next ==
  \/ start(BallStarts, StartDraws)
  \/ onTap(MaxTaps, TapUntil)
  \/ loop(Gaps, LoopDraws)
  \/ selectMode({"endless"})

Spec == Init /\ [][Next]_vars

(* ---------------- the runs with obstacles (endless mode) --------------- *)
\* rings created during the run may carry an obstacle (index >= OBSTACLE_FROM),
\* here opposite to the gap
ObstacleDraws == {NoDraw, [gapCenter |-> Pi + 1, rot |-> -1, obstacle |-> TRUE, sep |-> 1]}

InitObstacle == InitWith({"A"}, {FALSE})

\* a burst of taps at the start, single taps later, regular frames, and
\* stalled frames while the ball is in the first ring
NextObstacle ==
  \/ start(BallStarts, StartDraws \ {NoDraw})
  \/ onTap(MaxTaps, 0)
  \/ onTap(1, ObstacleTapUntil)
  \/ frame({1}, ObstacleDraws, ObstacleNow, ObstacleEscaped, 0)
  \/ frame({StallGap}, {NoDraw}, StallNow, StallEscaped, 0)
  \/ selectMode({"endless"})

SpecObstacle == InitObstacle /\ [][NextObstacle]_vars

(* ------------------------------ properties ---------------------------- *)
\* the ring indices of the window around position e
Window(e) == {i \in 0..(e + WINDOW_FUTURE) : i >= e - WINDOW_PAST}

\* C1: once a run has been started, whenever no transition is pending the
\* key set of state.rings is exactly the window
\* {i : max(0, escaped - 2) <= i <= escaped + 4}
C1_WindowExact ==
  (generated # {} /\ state.pendingEscapes = << >>)
    => DOMAIN state.rings = Window(state.escaped)

\* a running game that has left the first three rings behind, nothing pending
C1_Witness ==
  /\ running
  /\ state.pendingEscapes = << >>
  /\ state.escaped > WINDOW_PAST
  /\ 0 \notin DOMAIN state.rings

\* C2: while a transition is pending, the ring at position escaped and
\* every ring index of pendingEscapes is in the ring store
C2_PendingRingsKept ==
  state.pendingEscapes # << >>
    => (Range(state.pendingEscapes) \cup {state.escaped}) \subseteq DOMAIN state.rings

\* C3: within a run no ring index is generated a second time
C3_GeneratedOnce == regenerated = {}

\* shortest angular distance of two angles on the circle
CircDist(a, b) ==
  LET d == (a - b) % TwoPi IN IF d <= TwoPi - d THEN d ELSE TwoPi - d

\* the ball lies in the gap of the stored ring i: distance <= gapWidth / 2
InGap(i) ==
  2 * CircDist(state.ballAngle, state.rings[i].gapCenter) <= state.rings[i].gapWidth

\* C4: the chain detected in a tick is the maximal aligned prefix starting
\* at escaped, cut at maxChainCheck rings: consecutive indices, each ring
\* aligned, the ring after a shorter chain misaligned; a tick that detects
\* nothing leaves the ball misaligned with the ring at escaped
C4_ChainPrefix ==
  /\ (state.pendingEscapes # << >> /\ state.escapeTweenProgress = 0) =>
        LET p == state.pendingEscapes
            k == Len(p)
        IN  /\ k <= maxChainCheck
            /\ \A j \in 1..k :
                  /\ p[j] = state.escaped + j - 1
                  /\ p[j] \in DOMAIN state.rings => InGap(p[j])
            /\ (k < maxChainCheck /\ state.escaped + k \in DOMAIN state.rings)
                  => ~InGap(state.escaped + k)
  /\ (running /\ now > 0 /\ state.pendingEscapes = << >>) => ~InGap(state.escaped)

\* the chain [e, e+1] with ring e+2 misaligned and ring e+3 aligned
C4_Witness ==
  /\ state.escapeTweenProgress = 0
  /\ Len(state.pendingEscapes) = 2
  /\ ~InGap(state.escaped + 2)
  /\ InGap(state.escaped + 3)

\* C5: a tick that detects a chain of k rings adds k to the score and
\* leaves escaped unchanged; while the transition is pending a tick adds
\* no score and detects nothing; escaped becomes the target in the tick
\* where the progress reaches 1, pendingEscapes is emptied there and only
\* then can the next chain be detected
C5_DeferredCommit ==
  [][ (running /\ now' > now) =>
        LET p == state.pendingEscapes
            q == state'.pendingEscapes
        IN  IF p = << >>
            THEN /\ state'.escaped = state.escaped
                 /\ state'.score = state.score + Len(q)
                 /\ q # << >> => /\ state'.escapeTargetEscaped = state.escaped + Len(q)
                                 /\ state'.escapeTweenProgress = 0
            ELSE IF state'.escaped = state.escaped
            THEN /\ q = p
                 /\ state'.score = state.score
                 /\ state'.escapeTweenProgress >= state.escapeTweenProgress
                 /\ state'.escapeTweenProgress < ProgressOne
            ELSE /\ state'.escaped = state.escaped + Len(p)
                 /\ state.escapeTweenProgress * state.escapeTweenDuration
                       + MaxDt * ProgressOne >= ProgressOne * state.escapeTweenDuration
                 /\ state'.escapeTweenProgress = 0
                 /\ state'.score = state.score + Len(q)
                 /\ q # << >> => q[1] = state'.escaped
    ]_vars

\* a chain of several rings half way through its transition
C5_Witness ==
  /\ running
  /\ Len(state.pendingEscapes) >= 2
  /\ state.escapeTweenProgress > 0
  /\ state.score = state.escaped + Len(state.pendingEscapes)

\* C6 as stated: a run that ends in CRITICAL, no escape having taken it
\* out of it, ends with pressure_fail and with no other cause
C6_EndsWithPressureFail ==
  (~running /\ state.criticalActive /\ endReason # "mode_switch")
    => endReason = "pressure_fail"

\* C6: a run that ends in CRITICAL ends with pressure_fail, with the ring
\* time limit, with an obstacle or with a mode switch, and with
\* pressure_fail when the critical elapsed time has reached criticalWindow
C6_CriticalEnd ==
  (~running /\ state.criticalActive) =>
    /\ endReason \in {"pressure_fail", "time", "obstacle", "mode_switch"}
    /\ state.criticalElapsed >= state.criticalWindow => endReason = "pressure_fail"

\* cohort B, the run failed by the critical window
C6_Witness ==
  /\ ~running
  /\ state.criticalActive
  /\ abGroup = "B"
  /\ endReason = "pressure_fail"

\* C7: pressure_fail ends a run only with criticalActive and
\* criticalElapsed >= criticalWindow, and no tick leaves the game running
\* with that condition true
C7_NoEarlyFail ==
  /\ endReason = "pressure_fail" =>
        state.criticalActive /\ state.criticalElapsed >= state.criticalWindow
  /\ (running /\ state.criticalActive) => state.criticalElapsed < state.criticalWindow

\* the run failed in the tick where the elapsed time equals the window
C7_Witness ==
  /\ endReason = "pressure_fail"
  /\ state.criticalElapsed = state.criticalWindow

\* C8: a tick advances every timer by at most the clamped dt: the ring
\* time and the time since the last escape grow by at most dt, the chain
\* timer (when no escape sets it anew) falls by at most dt, the transition
\* progress grows by at most dt / duration, and the critical elapsed time
\* grows by at most dt
C8_StallBound ==
  [][ (running /\ now' > now) =>
        /\ state'.timeInRing <= state.timeInRing + MaxDt
        /\ state'.timeSinceLastEscape <= state.timeSinceLastEscape + MaxDt
        /\ state'.score = state.score => state'.chainTimer >= state.chainTimer - MaxDt
        /\ (state.pendingEscapes # << >> /\ state'.pendingEscapes = state.pendingEscapes)
              => state'.escapeTweenProgress * state.escapeTweenDuration
                   <= state.escapeTweenProgress * state.escapeTweenDuration
                        + MaxDt * ProgressOne
        /\ state'.criticalElapsed <= state.criticalElapsed + MaxDt
    ]_vars

\* C9: 0 <= pressure <= 1 after every operation
C9_PressureRange == 0 <= state.pressure /\ state.pressure <= PressureOne

\* taps have driven the pressure to the upper end
C9_Witness ==
  /\ running
  /\ state.pressure = PressureOne
  /\ Len(state.tapsInWindow) >= SPAM_FREE_TAPS

\* C10: a tick that detects an escape in CRITICAL sets pressure to 0,
\* criticalActive to false, criticalElapsed to 0 and adds 1 to
\* runStats.criticalEscapes, whatever the length of the chain
C10_CriticalRoundTrip ==
  [][ ( /\ running
        /\ state'.score > state.score
        /\ \/ state.criticalActive
           \/ state'.runStats.criticalEntries > state.runStats.criticalEntries )
      => /\ state'.pressure = 0
         /\ ~state'.criticalActive
         /\ state'.criticalElapsed = 0
         /\ state'.runStats.criticalEscapes = state.runStats.criticalEscapes + 1
    ]_vars

\* a chain detected in a tick later than the one that entered CRITICAL
C10_Witness ==
  /\ state.runStats.criticalEscapes = 1
  /\ state.criticalStartTime < now
  /\ state.timeSinceLastEscape = 0
  /\ Len(state.pendingEscapes) >= 2
  /\ state.pressure = 0
  /\ ~state.criticalActive

\* the pressure a tick with this dt has at its critical entry test: the
\* time accumulation and the decay, each clamped into [0, 1]
TickPressure(p, dt, exp) ==
  LET up == IF p + pressureTimeRate * dt > PressureOne THEN PressureOne
            ELSE p + pressureTimeRate * dt
      decay == IF exp THEN PRESSURE_DECAY_EXPERT ELSE PRESSURE_DECAY_NORMAL
  IN  IF up - decay * dt < 0 THEN 0 ELSE up - decay * dt

\* a tick of a running game
IsTick == running /\ now' > now

\* C11: a tick that detects an escape in NORMAL (criticalActive false, the
\* pressure of the tick below criticalThreshold) sets pressure to
\* max(0, pressure - partialResetAmount), leaves criticalActive false and
\* leaves criticalEntries and criticalEscapes unchanged
C11_PartialReset ==
  [][ ( /\ IsTick
        /\ state'.score > state.score
        /\ ~state.criticalActive
        /\ TickPressure(state.pressure, MaxDt, expert) < criticalThreshold )
      => LET pt == TickPressure(state.pressure, MaxDt, expert)
         IN  /\ state'.pressure = (IF pt > partialResetAmount
                                    THEN pt - partialResetAmount ELSE 0)
             /\ ~state'.criticalActive
             /\ state'.runStats.criticalEntries = state.runStats.criticalEntries
             /\ state'.runStats.criticalEscapes = state.runStats.criticalEscapes
    ]_vars

\* an escape in NORMAL that left part of the pressure
C11_Witness ==
  /\ running
  /\ state.timeSinceLastEscape = 0
  /\ state.pendingEscapes # << >>
  /\ ~state.criticalActive
  /\ state.runStats.criticalEntries = 0
  /\ state.pressure > 0

\* C12: criticalActive becomes true only in a tick that starts in NORMAL
\* and whose pressure, after accumulation and decay, is >= criticalThreshold;
\* exactly such a tick adds 1 to runStats.criticalEntries; a tap or a mode
\* switch never sets criticalActive nor changes the counter
C12_CriticalEntry ==
  [][ IF IsTick
      THEN LET enters == /\ ~state.criticalActive
                         /\ TickPressure(state.pressure, MaxDt, expert) >= criticalThreshold
           IN  /\ state'.runStats.criticalEntries
                     = state.runStats.criticalEntries + (IF enters THEN 1 ELSE 0)
               /\ (state'.criticalActive /\ ~state.criticalActive) => enters
               /\ (enters /\ state'.score = state.score) => state'.criticalActive
      ELSE /\ state'.criticalActive => state.criticalActive
           /\ \/ state'.runStats.criticalEntries = state.runStats.criticalEntries
              \/ (~running /\ running' /\ state'.runStats.criticalEntries = 0)
    ]_vars

\* the tick that has just entered the critical orbit
C12_Witness ==
  /\ running
  /\ state.criticalActive
  /\ state.criticalStartTime = now
  /\ state.runStats.criticalEntries = 1

(* ------------------- the runs of the three modes ----------------------- *)
InitModes == InitWith({"A"}, {FALSE})

\* the mode is chosen between runs or switched mid-run; single taps at any
\* instant of the first frames and on a beat after them, regular frames,
\* every ring created with the same draw
NextModes ==
  \/ start(BallStarts, {NoDraw})
  \/ onTap(1, ModeTapUntil)
  \/ (now % ModeBeat = 0 /\ onTap(1, ModeNow))
  \/ frame({1}, {NoDraw}, ModeNow, ModeEscaped, 0)
  \/ selectMode(Modes)

SpecModes == InitModes /\ [][NextModes]_vars

(* ------------------- the runs followed after their end ----------------- *)
InitEnded == InitWith({"A"}, {FALSE})

\* frames keep arriving and taps keep coming after the end of a run
NextEnded ==
  \/ start(BallStarts, {NoDraw})
  \/ onTap(1, EndedNow)
  \/ frame({1}, {NoDraw}, EndedNow, EndedEscaped, EndedNow)
  \/ selectMode({"endless"})

SpecEnded == InitEnded /\ [][NextEnded]_vars

(* ----------------- the runs in normal and in expert mode --------------- *)
InitExpert == InitWith({"A"}, BOOLEAN)

NextExpert ==
  \/ start(BallStarts, {NoDraw})
  \/ onTap(1, ExpertNow)
  \/ frame({1}, {NoDraw}, ExpertNow, ExpertEscaped, 0)
  \/ selectMode({"endless"})

SpecExpert == InitExpert /\ [][NextExpert]_vars

(* ------------- two independent executions in daily mode --------------- *)
\* the ring indices the executions create (both sides of the wrap-around)
DailyIndices == {0, DAILY_LENGTH - 1, DAILY_LENGTH, MaxDailyIndex}

\* the draws of Math.random() * Math.PI * 2 in the fallback
FallbackDraws == {0, Pi}

\* the gap centre given to a ring from the next unused entry of the pattern
dailyGapCenterOf_nextEntry(x, i, rnd) ==
  x.pattern.gapCenters[Cardinality(DOMAIN x.rings) % x.pattern.length]

\* ringParamsForIndex in daily mode: if (state.mode === 'daily' &&
\* dailyPattern) gapCenter = getDailyGapCenter(dailyPattern, i), otherwise
\* rand(0, Math.PI * 2)
dailyGapCenterOf(x, i, rnd) ==
  IF x.pattern # NoPattern THEN getDailyGapCenter(x.pattern, i, rnd) ELSE rnd

\* initApp of execution e on the date d, the cache holding one of entries:
\* dailyPattern = getDailyPattern(getVersion(), todayId)
loadDailyPattern(e, entries) ==
  \E d \in DateIds, cached \in entries :
    /\ ~daily[e].loaded
    /\ daily' = [daily EXCEPT ![e].loaded = TRUE,
                              ![e].pattern = getDailyPattern(cached, d)]
    /\ UNCHANGED <<gameVars, player>>

\* ensureRing(i) of execution e in daily mode: rings.set(i, ringParamsForIndex(i))
createDailyRing(e) ==
  \E i \in DailyIndices \ DOMAIN daily[e].rings, rnd \in FallbackDraws :
    /\ daily[e].loaded
    /\ daily' = [daily EXCEPT ![e].rings =
                   [k \in (DOMAIN @) \cup {i} |->
                      IF k = i THEN dailyGapCenterOf(daily[e], i, rnd) ELSE @[k]]]
    /\ UNCHANGED <<gameVars, player>>

\* pruneRings of execution e: rings.delete(i)
pruneDailyRing(e) ==
  \E i \in DOMAIN daily[e].rings :
    /\ daily' = [daily EXCEPT ![e].rings = [k \in (DOMAIN @) \ {i} |-> @[k]]]
    /\ UNCHANGED <<gameVars, player>>

InitDaily == InitWith({"A"}, {FALSE})

\* two executions without a cache entry for their date
NextDaily ==
  \E e \in Executions :
    \/ loadDailyPattern(e, {NoEntry})
    \/ createDailyRing(e)
    \/ pruneDailyRing(e)

SpecDaily == InitDaily /\ [][NextDaily]_vars

(* ------------- executions that find an entry in the cache -------------- *)
InitCache == InitWith({"A"}, {FALSE})

NextCache ==
  \E e \in Executions :
    \/ loadDailyPattern(e, CachedEntries)
    \/ createDailyRing(e)
    \/ pruneDailyRing(e)

SpecCache == InitCache /\ [][NextCache]_vars

(* ------------------ the sessions of one player's device ---------------- *)
\* what an earlier release left in localStorage: data of an older version
\* without a cohort, with the cohort null, with a cohort; a V1 best score
EarlierStorages ==
  { [po_data |-> [version |-> OLD_VERSION, totalRuns |-> 1], v1_best |-> << >>],
    [po_data |-> [version |-> OLD_VERSION, abGroup |-> JsNull, totalRuns |-> 1],
     v1_best |-> << >>],
    [po_data |-> [version |-> OLD_VERSION, abGroup |-> "A", totalRuns |-> 1],
     v1_best |-> << >>],
    [po_data |-> [version |-> OLD_VERSION, abGroup |-> "B", totalRuns |-> 1],
     v1_best |-> << >>],
    [po_data |-> NoEntry, v1_best |-> <<5>>] }

\* the player used an earlier release before the first session
earlierRelease ==
  \E ls \in EarlierStorages :
    /\ player.sessions = 0
    /\ player.ls = EmptyStorage
    /\ player' = [player EXCEPT !.ls = ls]
    /\ UNCHANGED <<gameVars, daily>>

\* a page load, initApp steps 1 to 4: playerData = initPlayerData();
\* savePlayerData(playerData); ensureABGroup(playerData);
\* savePlayerData(playerData). When the access is denied, getItem(V1_BEST_KEY)
\* of initPlayerData throws outside any try and playerData stays null
initApp(accesses) ==
  \E access \in accesses, w2, w3 \in accesses \ {"denied"}, rnd \in AbDraws :
    /\ player.sessions < MaxSessions
    /\ IF access = "denied"
       THEN player' = [player EXCEPT !.playerData = NoPlayerData,
                                     !.sessions = @ + 1]
       ELSE LET loaded == initPlayerData(player.ls, access)
                ls2 == savePlayerData(loaded.ls, loaded.data, w2)
                ensured == ensureABGroup(loaded.data, rnd)
                ls3 == savePlayerData(ls2, ensured, w3)
            IN  player' = [ls |-> ls3, playerData |-> ensured,
                           sessions |-> player.sessions + 1,
                           assigned |-> player.assigned +
                                        (IF ensured # loaded.data THEN 1 ELSE 0)]
    /\ UNCHANGED <<gameVars, daily>>

\* the end of a run: playerData.stats.totalRuns++; savePlayerData(playerData)
saveRun(accesses) ==
  \E access \in accesses :
    /\ player.playerData # NoPlayerData
    /\ player.playerData.totalRuns < MaxRuns
    /\ LET playerData == [player.playerData EXCEPT !.totalRuns = @ + 1]
       IN  player' = [player EXCEPT !.playerData = playerData,
                                    !.ls = savePlayerData(player.ls, playerData, access)]
    /\ UNCHANGED <<gameVars, daily>>

InitPlayer == InitWith({"A"}, {FALSE})

NextPlayer ==
  \/ earlierRelease
  \/ initApp(StorageAccess)
  \/ saveRun(StorageAccess)

SpecPlayer == InitPlayer /\ [][NextPlayer]_vars

(* --------------------------- calls of addXP ---------------------------- *)
\* no call of addXP yet
NoCall == [isNull |-> TRUE]
\* the level, the xp and the xpToAdd of the calls: xp at 0, just below and
\* at the XP of a level, and above it
StartLevels == 1..3
StartXp == {0, 119, 120, 300}
XpGains == {0, 1, 43, 120, 500}

\* the part of playerData that addXP reads and writes
XpStart(level, xp) ==
  [level |-> level, xp |-> xp, cosmetics |-> {}, levelsGained |-> << >>, call |-> NoCall]

InitXP ==
  /\ InitGame({"A"}, {FALSE})
  /\ pwa = NoPwa
  /\ progression \in {XpStart(level, xp) : level \in StartLevels, xp \in StartXp}

\* addXP(playerData, xpToAdd)
gainXP ==
  \E xpToAdd \in XpGains :
    /\ progression.level <= MaxLevel
    /\ progression' =
         [addXP(progression, xpToAdd) EXCEPT
            !.call = [level |-> progression.level, xp |-> progression.xp,
                      xpToAdd |-> xpToAdd]]
    /\ UNCHANGED <<state, running, lastT, now, expert, currentMode, abGroup,
                   endReason, generated, regenerated, telemetryLog, resetFrom,
                   dailyPattern, daily, player, pwa>>

NextXP == gainXP

SpecXP == InitXP /\ [][NextXP]_vars

(* -------------------- calls of updateMissionProgress ------------------- *)
\* deathCause of a template that has none
NoCause == "undefined"

\* a mission template; target 0 stands for a template without a target
Template(id, type, target, reward, deathCause) ==
  [id |-> id, type |-> type, target |-> target, reward |-> reward,
   deathCause |-> deathCause]

\* the templates by category: easy_1, skill_1 and mode_1 are those of
\* getDefaultMissions(); the others give every type of the switch of
\* updateMissionProgress a template
MissionTemplates ==
  [ easy |-> { Template("easy_1", "runs", 3, 50, NoCause),
               Template("easy_2", "rings_total", 3, 40, NoCause),
               Template("easy_3", "daily_participate", 0, 30, NoCause),
               Template("easy_4", "sprint_participate", 0, 30, NoCause) },
    skill |-> { Template("skill_1", "chain_at_least", 3, 80, NoCause),
                Template("skill_2", "best_score", 2, 60, NoCause),
                Template("skill_3", "critical_escapes_single_run", 1, 90, NoCause),
                Template("skill_4", "survive_seconds", 5, 60, NoCause),
                Template("skill_5", "avoid_death_cause", 0, 70, "obstacle"),
                Template("skill_6", "endless_score", 2, 70, NoCause) },
    mode |-> { Template("mode_1", "daily_complete", 1, 100, NoCause),
               Template("mode_2", "sprint_complete", 1, 100, NoCause),
               Template("mode_3", "daily_streak", 2, 120, NoCause),
               Template("mode_4", "play_all_modes", 0, 90, NoCause),
               Template("mode_5", "sprint_time_under", 4000, 110, NoCause) } ]

\* rolled.push({ ...mission, progress: 0, completed: false, category })
rolled(template, category) ==
  [id |-> template.id, type |-> template.type, target |-> template.target,
   reward |-> template.reward, deathCause |-> template.deathCause,
   progress |-> 0, completed |-> FALSE, category |-> category]

\* rollMissions(missionTemplates): one mission of each category, whatever
\* Math.random() picks
rollMissions(templates) ==
  { << rolled(e, "easy"), rolled(s, "skill"), rolled(m, "mode") >> :
      e \in templates.easy, s \in templates.skill, m \in templates.mode }

\* the events of the calls and their data
MissionEvents ==
  {[type |-> "run_start", data |-> [mode |-> m]] : m \in Modes}
  \cup {[type |-> "ring_escape", data |-> [count |-> c]] : c \in {1, 2}}
  \cup {[type |-> "chain_reached", data |-> [chain |-> c]] : c \in {2, 3}}
  \cup {[type |-> "run_end",
         data |-> [mode |-> m, rings |-> r, cause |-> c, time_ms |-> t,
                   critical_escapes |-> e]] :
          m \in {"endless", "sprint"}, r \in {0, 2, 3}, c \in {"obstacle"},
          t \in {6000}, e \in {1}}
  \cup {[type |-> "run_end",
         data |-> [mode |-> "endless", rings |-> 2, cause |-> "time", time_ms |-> 2000,
                   critical_escapes |-> 0]]}
  \cup {[type |-> "sprint_complete", data |-> [time_ms |-> t]] : t \in {3000, 6000}}
  \cup {[type |-> "daily_complete", data |-> << >>]}
  \cup {[type |-> "daily_streak_updated", data |-> [streak |-> k]] : k \in {1, 2}}
  \cup {[type |-> "modes_played_updated", data |-> [modesPlayed |-> 3]]}

\* playerData.missions.active, the list the last call returned, the last
\* call, and the count of the lists a mission was returned on
MissionStart(missions) ==
  [ missions |-> missions, completed |-> << >>, call |-> NoCall,
    reported |-> [id \in {missions[i].id : i \in DOMAIN missions} |-> 0] ]

InitMissions ==
  /\ InitGame({"A"}, {FALSE})
  /\ pwa = NoPwa
  /\ progression \in {MissionStart(missions) : missions \in rollMissions(MissionTemplates)}

\* updateMissionProgress(playerData.missions.active, eventType, eventData)
missionEvent ==
  \E ev \in MissionEvents :
    LET r == updateMissionProgress(progression.missions, ev.type, ev.data)
    IN  /\ progression' =
             [progression EXCEPT !.missions = r.missions,
                                 !.completed = missionIds(r.completed),
                                 !.call = ev,
                                 !.reported = countReturned(@, r.completed)]
        /\ UNCHANGED <<state, running, lastT, now, expert, currentMode, abGroup,
                       endReason, generated, regenerated, telemetryLog, resetFrom,
                       dailyPattern, daily, player, pwa>>

NextMissions == missionEvent

SpecMissions == InitMissions /\ [][NextMissions]_vars

(* ------------------ the runs with the progression followed ------------- *)
\* the templates the active missions were rolled from
RunTemplates ==
  [ easy |-> {t \in MissionTemplates.easy : t.id \in {"easy_2", "easy_4"}},
    skill |-> {t \in MissionTemplates.skill : t.id \in {"skill_1", "skill_2"}},
    mode |-> {t \in MissionTemplates.mode : t.id \in {"mode_1"}} ]

\* playerData of a new player with its missions rolled: level 1, no XP, no
\* run, nothing unlocked; and the history of the mission calls
ProgressionStart(missions) ==
  LET ids == {missions[i].id : i \in DOMAIN missions}
  IN  [ level |-> 1, xp |-> 0, cosmetics |-> {}, levelsGained |-> << >>,
        totalRuns |-> 0, achievements |-> {}, modesPlayed |-> {},
        missions |-> missions, completed |-> << >>, midRun |-> << >>,
        reported |-> [id \in ids |-> 0], rewarded |-> [id \in ids |-> 0],
        completedBy |-> [id \in ids |-> "none"] ]

InitRuns ==
  /\ InitGame({"A"}, {FALSE})
  /\ pwa = NoPwa
  /\ progression \in {ProgressionStart(missions) : missions \in rollMissions(RunTemplates)}

\* MaxRuns runs in any mode, ended by the game or by a switch of mode; a
\* burst of taps at the start, regular frames
NextRuns ==
  \/ (progression.totalRuns < MaxRuns /\ start(BallStarts, {NoDraw}))
  \/ onTap(MaxTaps, 0)
  \/ frame({1}, {NoDraw}, RunsNow, RunsEscaped, 0)
  \/ selectMode(Modes)

SpecRuns == InitRuns /\ [][NextRuns]_vars

(* --------------------------- install prompt ---------------------------- *)
\* Date.now() in seconds: oneWeek = 7 * 24 * 60 * 60 * 1000 ms, and the
\* delay of setTimeout(() => showInstallPrompt(...), 2000)
OneWeek == 604800
TimerDelay == 2
\* Date.now() of the first page load (more than a week after 0)
FirstNow == 2 * OneWeek

ValidTriggers == {"new_best", "total_runs_10", "sprint_complete", "daily_streak_3"}

\* checkInstallTriggers(playerData, trigger) at Date.now() = clock
checkInstallTriggers(p, trigger) ==
  IF p.pwaInstalled \/ p.isStandalone THEN FALSE
  ELSE IF p.installPromptShown >= 3 THEN FALSE
  ELSE IF p.clock - p.installPromptLastShown < OneWeek THEN FALSE
  ELSE trigger \in ValidTriggers

\* showInstallPrompt(playerData, platform): the iOS sheet, the native
\* prompt if beforeinstallprompt was captured, or nothing; a prompt shown
\* is counted and dated.  `shown` keeps when each prompt was shown and
\* whether the app was installed or standalone then.
showInstallPrompt(p) ==
  IF p.platform = "ios" \/ p.deferredInstallPrompt
  THEN [p EXCEPT !.installPromptShown = @ + 1,
                 !.installPromptLastShown = p.clock,
                 !.shown = Append(@, [at |-> p.clock,
                                      installed |-> p.pwaInstalled \/ p.isStandalone])]
  ELSE p

\* the triggers of checkPostRunInstallTriggers that are true, in its order
postRunTriggers(p, runResult) ==
  (IF runResult.isNewBest THEN << "new_best" >> ELSE << >>)
  \o (IF p.totalRuns = 10 THEN << "total_runs_10" >> ELSE << >>)
  \o (IF runResult.sprintComplete THEN << "sprint_complete" >> ELSE << >>)
  \o (IF p.dailyStreak = 3 THEN << "daily_streak_3" >> ELSE << >>)

\* checkPostRunInstallTriggers(playerData, runResult): a timer for every
\* true trigger that checkInstallTriggers accepts
checkPostRunInstallTriggers(p, runResult) ==
  LET accepted == SelectSeq(postRunTriggers(p, runResult),
                            LAMBDA trigger : checkInstallTriggers(p, trigger))
  IN  [p EXCEPT !.timers = @ \o [k \in DOMAIN accepted |-> p.clock + TimerDelay]]

\* stats.totalRuns and stats.dailyStreak stored by earlier sessions
StoredRuns == {0, 9}
StoredStreaks == {0, 3}

\* playerData.env and stats after initApp() on a platform, the prompt
\* captured or not, no timer pending
PwaStart(platform, standalone, totalRuns) ==
  [ platform |-> platform, isStandalone |-> standalone, pwaInstalled |-> FALSE,
    installPromptShown |-> 0, installPromptLastShown |-> 0,
    deferredInstallPrompt |-> FALSE, totalRuns |-> totalRuns, dailyStreak |-> 0,
    clock |-> FirstNow, timers |-> << >>, shown |-> << >>, runs |-> 0 ]

InitPwa ==
  /\ InitGame({"A"}, {FALSE})
  /\ progression = NotFollowed
  /\ pwa \in {PwaStart(platform, standalone, totalRuns) :
                platform \in {"ios", "android"}, standalone \in BOOLEAN,
                totalRuns \in StoredRuns}

\* the end of a run: stats.totalRuns++, then
\* checkPostRunInstallTriggers(playerData, { isNewBest, sprintComplete })
postRun ==
  /\ pwa.runs < PromptRuns
  /\ \E isNewBest \in BOOLEAN, sprintComplete \in BOOLEAN, streak \in StoredStreaks :
       pwa' = checkPostRunInstallTriggers(
                [pwa EXCEPT !.totalRuns = @ + 1, !.dailyStreak = streak, !.runs = @ + 1],
                [isNewBest |-> isNewBest, sprintComplete |-> sprintComplete])
  /\ UNCHANGED <<state, running, lastT, now, expert, currentMode, abGroup,
                 endReason, generated, regenerated, telemetryLog, resetFrom,
                 dailyPattern, daily, player, progression>>

\* a timer set by checkPostRunInstallTriggers is due: showInstallPrompt runs
timerFires ==
  /\ pwa.timers # << >>
  /\ Head(pwa.timers) <= pwa.clock
  /\ pwa' = showInstallPrompt([pwa EXCEPT !.timers = Tail(@)])
  /\ UNCHANGED <<state, running, lastT, now, expert, currentMode, abGroup,
                 endReason, generated, regenerated, telemetryLog, resetFrom,
                 dailyPattern, daily, player, progression>>

\* window 'beforeinstallprompt' (Android, desktop): the event is kept
beforeInstallPrompt ==
  /\ pwa.platform # "ios"
  /\ ~pwa.pwaInstalled
  /\ ~pwa.deferredInstallPrompt
  /\ pwa' = [pwa EXCEPT !.deferredInstallPrompt = TRUE]
  /\ UNCHANGED <<state, running, lastT, now, expert, currentMode, abGroup,
                 endReason, generated, regenerated, telemetryLog, resetFrom,
                 dailyPattern, daily, player, progression>>

\* window 'appinstalled': pwaInstalled = true, the kept event is dropped
appInstalled ==
  /\ pwa.platform # "ios"
  /\ ~pwa.pwaInstalled
  /\ pwa' = [pwa EXCEPT !.pwaInstalled = TRUE, !.deferredInstallPrompt = FALSE]
  /\ UNCHANGED <<state, running, lastT, now, expert, currentMode, abGroup,
                 endReason, generated, regenerated, telemetryLog, resetFrom,
                 dailyPattern, daily, player, progression>>

\* time passes: the delay of the pending timers, or a week while no timer
\* is pending; a timer that is due runs before any more time passes
timePasses ==
  /\ \A k \in DOMAIN pwa.timers : pwa.timers[k] > pwa.clock
  /\ \E d \in {TimerDelay, OneWeek} :
       /\ d = OneWeek <=> pwa.timers = << >>
       /\ pwa.clock + d <= FirstNow + MaxWeeks * OneWeek + PromptRuns * TimerDelay
       /\ pwa' = [pwa EXCEPT !.clock = @ + d]
  /\ UNCHANGED <<state, running, lastT, now, expert, currentMode, abGroup,
                 endReason, generated, regenerated, telemetryLog, resetFrom,
                 dailyPattern, daily, player, progression>>

NextPwa ==
  \/ postRun
  \/ timerFires
  \/ beforeInstallPrompt
  \/ appInstalled
  \/ timePasses

SpecPwa == InitPwa /\ [][NextPwa]_vars

(* ------------------------- terminal outcomes --------------------------- *)
\* the ball of s is on the obstacle of the ring at s.escaped
ObstacleHit(s) ==
  /\ s.escaped \in DOMAIN s.rings
  /\ s.rings[s.escaped].hasObstacle
  /\ \A tri \in TriangleWidths :
       2 * CircDist(s.ballAngle, s.rings[s.escaped].gapCenter + s.rings[s.escaped].obstacleAngle) <= tri

\* the critical window is over at the time of the coming frame
CriticalOver == state.criticalActive /\ now' - state.criticalStartTime >= state.criticalWindow

\* the time in the ring passes the limit in the coming frame
RingLate ==
  100 * (state.timeInRing + Min(MaxDt, now' - lastT))
    > Max(100 * RING_TIME_FLOOR,
          100 * state.maxRingTime
            - state.score * (IF expert THEN RING_TIME_PER_SCORE_EXPERT
                                       ELSE RING_TIME_PER_SCORE_NORMAL))

RunSummaryFields ==
  {"name", "mode", "cause", "rings", "time_ms", "max_chain",
   "critical_entries", "critical_escapes"}

\* C14: a run that has left RUNNING (by pressure_fail, obstacle, time,
\* mode_switch, sprint_complete or daily_complete) has emitted exactly one
\* run-end summary, carrying mode, cause, rings, time_ms, max_chain,
\* critical_entries and critical_escapes of that run
C14_RunSummaryOnce ==
  (~running /\ endReason # "none") =>
    /\ Len(telemetryLog) = 1
    /\ DOMAIN telemetryLog[1] = RunSummaryFields
    /\ telemetryLog[1].name = "run_end"
    /\ telemetryLog[1].cause = endReason
    /\ telemetryLog[1].mode = state.mode
    /\ telemetryLog[1].rings = state.score
    /\ telemetryLog[1].time_ms = now
    /\ telemetryLog[1].max_chain = state.runStats.maxChain
    /\ telemetryLog[1].critical_entries = state.runStats.criticalEntries
    /\ telemetryLog[1].critical_escapes = state.runStats.criticalEscapes

(* --------------------------- mode completion --------------------------- *)
\* the run of s has escaped the number of rings its mode asks for
TargetReached(s) ==
  \/ s.mode = "sprint" /\ s.score >= SPRINT_TARGET
  \/ s.mode = "daily" /\ s.score >= DAILY_TARGET

SuccessReasons == {"sprint_complete", "daily_complete"}

\* C19: in sprint mode (30 rings) and daily mode (40 rings) the tick that
\* brings score to the target or beyond ends the run with running false,
\* the completion flag of the mode set and the reason sprint_complete /
\* daily_complete, never a failure cause; a run is never left running with
\* score at or beyond the target, so no later tick steps it; the success
\* reason arises in no other way, and a run in endless mode never has a
\* completion flag or a success reason
C19_ModeCompletion ==
  /\ [](running => ~TargetReached(state))
  /\ [](state.mode = "endless" =>
          /\ ~state.sprintCompleted
          /\ ~state.dailyCompleted
          /\ endReason \notin SuccessReasons)
  /\ [][ /\ (IsTick /\ TargetReached(state')) =>
            /\ ~running'
            /\ state'.sprintCompleted = (state.mode = "sprint")
            /\ state'.dailyCompleted = (state.mode = "daily")
            /\ endReason' = (IF state.mode = "sprint" THEN "sprint_complete"
                                                      ELSE "daily_complete")
         /\ (endReason' \in SuccessReasons /\ endReason' # endReason) =>
              (IsTick /\ ~TargetReached(state) /\ TargetReached(state')) ]_vars

\* C19 witness: a daily run ended by the tick that took score past 40
C19_Witness ==
  /\ ~running
  /\ state.mode = "daily"
  /\ state.dailyCompleted
  /\ state.score > DAILY_TARGET
  /\ endReason = "daily_complete"

(* ------------------------------- reset --------------------------------- *)
\* the same random draws for two calls of resetGame()
SameDraws == [i \in 0..WINDOW_FUTURE |-> NoDraw]

\* C15: start() from any state (idle, ended after any cause, ended with a
\* transition in flight, ended in the critical orbit) yields the initial run
\* state: escaped 0, score 0, chain 1, chainTimer 0, pressure 0,
\* criticalActive false, criticalElapsed 0, timeInRing 0, no pending
\* escapes, transition progress 0, runStats {1, 0, 0}, no taps in the window,
\* ring keys exactly {0..4}; with the same random draws it is the state a
\* reset of the idle state gives, and a second reset right after it gives
\* that state again
C15_FullReset ==
  [][ (~running /\ running') =>
        /\ state'.escaped = 0 /\ state'.score = 0
        /\ state'.chain = 1 /\ state'.chainTimer = 0
        /\ state'.pressure = 0 /\ state'.criticalActive = FALSE
        /\ state'.criticalElapsed = 0 /\ state'.timeInRing = 0
        /\ state'.pendingEscapes = << >> /\ state'.escapeTweenProgress = 0
        /\ state'.runStats = [maxChain |-> 1, criticalEntries |-> 0, criticalEscapes |-> 0]
        /\ state'.tapsInWindow = << >>
        /\ DOMAIN state'.rings = 0..4
        /\ \A ball \in BallStarts :
             \E fresh \in {resetGame(InitialState, ball, SameDraws, expert, abGroup, currentMode, 0)} :
                /\ resetGame(state, ball, SameDraws, expert, abGroup, currentMode, 0) = fresh
                /\ resetGame(state', ball, SameDraws, expert, abGroup, currentMode, 0) = fresh ]_vars

\* C15 witness: a run just started from a run that had ended in the
\* critical orbit, with a chain above 1 left in the state
C15_Witness ==
  /\ running /\ now = 0
  /\ resetFrom.critical /\ resetFrom.reason # "none"
  /\ state.pressure = 0 /\ ~state.criticalActive /\ state.runStats.criticalEntries = 0

(* --------------------------- after the end ----------------------------- *)
\* escaped, score, pressure, ballDir, chain and the rings are left as they are
SameRun ==
  /\ state'.escaped = state.escaped /\ state'.score = state.score
  /\ state'.pressure = state.pressure /\ state'.ballDir = state.ballDir
  /\ state'.chain = state.chain /\ state'.rings = state.rings
  /\ state'.pendingEscapes = state.pendingEscapes

\* C16: the step that ends a run leaves running false at once, with the
\* transition in flight (if any) still pending; from then on a frame (the
\* only step that advances the time) leaves running false and changes
\* neither escaped, score, pressure, ballDir, chain nor the rings, and so
\* does every step that is not a start (taps included): a pending transition
\* is never committed, escaped keeps its value and score keeps the added k
C16_EndGameFinal ==
  [][ /\ (running /\ endReason' # "none") => ~running'
      /\ (~running /\ now' > now) => (~running' /\ SameRun)
      /\ (~running /\ ~running') => SameRun
      /\ (~running /\ state.pendingEscapes # << >>) =>
            /\ state.escaped = state.escapeTargetEscaped - Len(state.pendingEscapes)
            /\ state.score = state.escaped + Len(state.pendingEscapes) ]_vars

\* C16 witness: a run ended with a transition in flight, and frames have
\* arrived since (the summary carries the time of the end)
C16_Witness ==
  /\ ~running /\ state.pendingEscapes # << >>
  /\ Len(telemetryLog) = 1 /\ telemetryLog[1].time_ms < now
  /\ lastT = now
  /\ state.escaped < state.score

(* ---------------------------- ring timeout ----------------------------- *)
\* the ring time budget of s in hundredths: max(2.6, maxRingTime - score * r)
RingBudget100(s) ==
  Max(100 * RING_TIME_FLOOR,
      100 * s.maxRingTime
        - s.score * (IF expert THEN RING_TIME_PER_SCORE_EXPERT ELSE RING_TIME_PER_SCORE_NORMAL))

\* C17: a tick that reaches the time check (no critical timeout, no
\* obstacle hit) ends the run with cause time exactly when timeInRing, with
\* the dt of the tick added, exceeds max(2.6, maxRingTime - score * r)
\* (r = 0.06 / 0.08, maxRingTime 7.5 / 6.0 in normal / expert); during a
\* run timeInRing is set to 0 by every tick that detects an escape, grows
\* by dt in every other tick that reaches the time check and is changed by
\* no other step; so a running game is always within the budget
C17_RingTimeout ==
  [][ /\ (IsTick /\ ~CriticalOver /\ ~ObstacleHit(state')) =>
            /\ (endReason' = "time") <=> RingLate
            /\ state'.timeInRing =
                  (IF state'.score > state.score THEN 0
                   ELSE state.timeInRing + Min(MaxDt, now' - lastT))
      /\ (IsTick /\ (CriticalOver \/ ObstacleHit(state'))) =>
            state'.timeInRing = state.timeInRing
      /\ (running /\ ~IsTick) => state'.timeInRing = state.timeInRing
      /\ state'.maxRingTime = (IF expert' THEN MAX_RING_TIME_EXPERT ELSE MAX_RING_TIME_NORMAL)
            \/ ~running'
      /\ running' => 100 * state'.timeInRing <= RingBudget100(state') ]_vars

\* C17 witness: an expert run with a score above 0 ended by the ring
\* timeout in the first tick past its shrunk budget
C17_Witness ==
  /\ endReason = "time" /\ expert /\ state.score > 0
  /\ 100 * state.timeInRing > RingBudget100(state)
  /\ 100 * (state.timeInRing - MaxDt) <= RingBudget100(state)
  /\ state.timeInRing <= MAX_RING_TIME_EXPERT

(* --------------------------- obstacle death ---------------------------- *)
\* the ball of s is on the obstacle of a stored ring other than the one at
\* s.escaped
OtherObstacleHit(s) ==
  \E k \in (DOMAIN s.rings) \ {s.escaped} :
    /\ s.rings[k].hasObstacle
    /\ \A tri \in TriangleWidths :
         2 * CircDist(s.ballAngle, s.rings[k].gapCenter + s.rings[k].obstacleAngle) <= tri

\* C18: a tick that reaches the obstacle check (no critical timeout) ends
\* the run with cause obstacle exactly when the ring at escaped has an
\* obstacle and the ball is within half the obstacle's width of
\* gapCenter + obstacleAngle; the obstacle of any other ring (a ring of the
\* pending chain included) never ends the run
C18_ObstacleDeath ==
  [][ /\ (IsTick /\ ~CriticalOver) =>
            /\ (endReason' = "obstacle") <=> ObstacleHit(state')
            /\ ObstacleHit(state') => ~running'
            /\ (OtherObstacleHit(state') /\ ~ObstacleHit(state')) => endReason' # "obstacle"
      /\ (IsTick /\ CriticalOver) => endReason' # "obstacle"
      /\ ~IsTick => (endReason' = "obstacle" => endReason = "obstacle") ]_vars

\* C18 witness: a run ended by the obstacle of the ring at escaped
C18_Witness ==
  /\ ~running /\ endReason = "obstacle"
  /\ ObstacleHit(state)
  /\ state.escaped >= OBSTACLE_FROM

C21_GenerationNeverFails ==
  \A e \in Executions :
    \A i \in DOMAIN daily[e].rings : daily[e].rings[i] \in 0..(TwoPi - 1)

(* --------------------------- chain multiplier -------------------------- *)
\* the clamped dt of the frame being taken
TickDt == Min(MaxDt, now' - lastT)

\* the causes that end a tick before the chain timer is looked at
EarlyCauses == {"pressure_fail", "obstacle", "time"}

\* C22: state.chain is always in 1..9; a tick that reaches the chain timer
\* first resets chain to 1 if (and only if) chainTimer - dt has fallen to 0,
\* then an escape of k rings detected in the tick sets it to
\* min(9, chain + k); a tick that ends the run before that point leaves it,
\* and outside ticks only start() changes it (to 1)
C22_ChainMultiplier ==
  /\ [](state.chain \in 1..CHAIN_MAX)
  /\ [][ /\ IsTick =>
            LET decayed == Max(0, state.chainTimer - TickDt) = 0
                base == IF decayed THEN 1 ELSE state.chain
                k == state'.score - state.score
            IN  IF endReason' \in EarlyCauses
                THEN state'.chain = state.chain
                ELSE /\ k >= 0
                     /\ state'.chain = IF k = 0 THEN base ELSE Min(CHAIN_MAX, base + k)
         /\ (~IsTick /\ state'.chain # state.chain) =>
              (~running /\ running' /\ state'.chain = 1) ]_vars

\* C22 witness: the multiplier at its cap after more escapes than the cap
\* allows to count, in a run still going
C22_Witness ==
  /\ running
  /\ state.chain = CHAIN_MAX
  /\ state.score > CHAIN_MAX

\* C23: an escape of k rings extends chainTimer by 1.15 k: its value after
\* the tick is its value just before the escape (decayed by dt) plus the
\* chain time of the k rings
C23_TimerExtended ==
  [][ (IsTick /\ state'.score > state.score) =>
        state'.chainTimer = Max(0, state.chainTimer - TickDt)
                              + CHAIN_TIME * (state'.score - state.score) ]_vars

(* --------------------------------- tap --------------------------------- *)
\* a tap taken while the game is running
IsTap == running /\ running' /\ now' = now /\ state' # state

\* C24: a tap while running negates ballDir (which stays +1 or -1, so two
\* taps restore it) and adds pressureTapRate * m to the pressure, clamped to
\* 1, where n counts the taps of the trailing window, this one included, and
\* m = 1 for n <= 3, 1 + 0.3 (n - 3) above; of the run state it changes
\* only ballDir, pressure and the tap bookkeeping, and nothing outside it
C24_Tap ==
  /\ [](state.ballDir \in {-1, 1})
  /\ [][ IsTap =>
          LET n == 1 + Cardinality({ j \in DOMAIN state.tapsInWindow :
                                      now - state.tapsInWindow[j] < TAP_WINDOW })
              added == IF n <= 3 THEN pressureTapRate
                       ELSE RoundDiv(pressureTapRate * (10 + 3 * (n - 3)), 10)
          IN  /\ state'.ballDir = -state.ballDir
              /\ state'.pressure = Min(PressureOne, state.pressure + added)
              /\ Len(state'.tapsInWindow) = n
              /\ [state' EXCEPT !.ballDir = state.ballDir,
                                !.pressure = state.pressure,
                                !.tapsInWindow = state.tapsInWindow,
                                !.lastTapTime = state.lastTapTime] = state
              /\ UNCHANGED <<running, lastT, now, expert, currentMode, abGroup,
                             endReason, generated, regenerated, telemetryLog>> ]_vars

\* C24 witness: the fifth tap of a window, paid with the spam multiplier
C24_Witness ==
  /\ running
  /\ Len(state.tapsInWindow) = 5
  /\ state.ballDir = -1
  /\ state.pressure > 5 * pressureTapRate

(* ------------------------ score mirrors position ----------------------- *)
\* C25: in every state of the game (so at the end of every tick) score
\* equals escaped while no transition is pending, and equals
\* escapeTargetEscaped = escaped + the number of pending indices while one
\* is; within a run (every step but start()) neither score nor escaped
\* decreases
C25_ScoreMirrorsPosition ==
  /\ [](IF state.pendingEscapes = << >>
        THEN state.score = state.escaped
        ELSE /\ state.score = state.escapeTargetEscaped
             /\ state.escapeTargetEscaped = state.escaped + Len(state.pendingEscapes))
  /\ [][ (running \/ ~running') =>
           /\ state'.score >= state.score
           /\ state'.escaped >= state.escaped ]_vars

\* C25 witness: a chain of several rings detected in the tick that
\* committed the transition before it
C25_Witness ==
  /\ running
  /\ Len(state.pendingEscapes) > 1
  /\ state.escaped > 0
  /\ state.timeInRing = 0
  /\ state.score = state.escaped + Len(state.pendingEscapes)

(* ----------------------------- angle ranges ---------------------------- *)
\* C26: after every tick ballAngle lies in [0, 2 pi) and the gapCenter of
\* every stored ring lies in [0, 2 pi), for both orbit directions and both
\* signs of rotSpeed
C26_AngleRanges ==
  /\ state.ballAngle \in 0..(TwoPi - 1)
  /\ \A k \in DOMAIN state.rings : state.rings[k].gapCenter \in 0..(TwoPi - 1)

\* C27: a tick that starts with a transition pending changes the gapCenter
\* of no ring stored before and after it; the gapCenter of a stored ring
\* changes only in ticks that start with no transition pending (and in
\* start(), which draws the rings anew)
C27_RingFreeze ==
  [][ /\ (IsTick /\ state.pendingEscapes # << >>) =>
           \A k \in (DOMAIN state.rings) \cap (DOMAIN state'.rings) :
             state'.rings[k].gapCenter = state.rings[k].gapCenter
      /\ (\E k \in (DOMAIN state.rings) \cap (DOMAIN state'.rings) :
             state'.rings[k].gapCenter # state.rings[k].gapCenter) =>
           \/ ~running /\ running'
           \/ IsTick /\ state.pendingEscapes = << >> ]_vars

\* C27 witness: a transition of several rings after its first tick, the
\* rings around it turning in both directions
C27_Witness ==
  /\ running
  /\ Len(state.pendingEscapes) > 1
  /\ state.escapeTweenProgress > 0
  /\ \E j, k \in DOMAIN state.rings :
       state.rings[j].rotSpeed > 0 /\ state.rings[k].rotSpeed < 0

(* ------------------------- obstacles after ring 50 --------------------- *)
\* C28: no ring with index <= 50 is generated with hasObstacle = true, and
\* so no run ends with the cause obstacle while escaped <= 50
C28_ObstaclesAfter50 ==
  /\ \A k \in DOMAIN state.rings :
       k <= OBSTACLE_RING_README => ~state.rings[k].hasObstacle
  /\ endReason = "obstacle" => state.escaped > OBSTACLE_RING_README

(* -------------------------- angular difference ------------------------- *)
\* the angles the step compares with the ball angle: the gap centre of every
\* stored ring and, for a ring with an obstacle, gapCenter + obstacleAngle
ComparedAngles ==
  { state.rings[k].gapCenter : k \in DOMAIN state.rings }
    \cup { state.rings[k].gapCenter + state.rings[k].obstacleAngle :
             k \in { j \in DOMAIN state.rings : state.rings[j].hasObstacle } }

\* C29: for the ball angle a and every angle b it is compared with,
\* angDiff(a, b) lies in [-pi, pi] and is congruent to a - b modulo 2 pi, so
\* its absolute value is the shortest angular distance between a and b
C29_AngularDifference ==
  \A b \in ComparedAngles :
    /\ angDiff(state.ballAngle, b) \in (-Pi)..Pi
    /\ (angDiff(state.ballAngle, b) - (state.ballAngle - b)) % TwoPi = 0
    /\ Abs(angDiff(state.ballAngle, b)) = CircDist(state.ballAngle, b)

\* C29 witness: a negative ball angle compared with the angle of an obstacle
\* more than a full turn above it
C29_Witness ==
  /\ running
  /\ state.ballAngle < 0
  /\ \E b \in ComparedAngles : state.ballAngle - b < -TwoPi


\* the cohort kept in po_data, null when there is none
StoredCohort(ls) ==
  IF ls.po_data # NoEntry /\ "abGroup" \in DOMAIN ls.po_data
  THEN ls.po_data.abGroup
  ELSE JsNull

\* the cohort of the playerData of the running session, null when there is none
SessionCohort ==
  IF player.playerData # NoPlayerData THEN player.playerData.abGroup ELSE JsNull

\* What holds whether the calls of localStorage succeed or throw: once po_data
\* holds the cohort 'A' or 'B', no page load and no later savePlayerData
\* changes the cohort in po_data, and the playerData of every later session
\* carries it; within a session a cohort of playerData never changes.
StoredCohortPermanent ==
  [][ /\ StoredCohort(player.ls) \in Cohorts
         => /\ StoredCohort(player'.ls) = StoredCohort(player.ls)
            /\ player'.playerData # NoPlayerData
               => player'.playerData.abGroup = StoredCohort(player.ls)
      /\ (SessionCohort \in Cohorts /\ player'.sessions = player.sessions)
         => SessionCohort' = SessionCohort ]_vars

\* C30: the cohort is permanent. Once playerData.abGroup is 'A' or 'B', no
\* step made of ensureABGroup, initPlayerData (load, merge with the template,
\* version migration) and savePlayerData calls leaves playerData with another
\* cohort, and assignABGroup is called only when the loaded data has no
\* cohort.
C30_PermanentCohort ==
  [][ /\ (SessionCohort \in Cohorts /\ player'.playerData # NoPlayerData)
         => SessionCohort' = SessionCohort
      /\ player'.assigned # player.assigned
         => StoredCohort(player.ls) = JsNull ]_vars


(* ------------------------ fail checks and escapes ---------------------- *)
\* the ball of s is within the gap of the ring at s.escaped
BallInGap(s) ==
  /\ s.escaped \in DOMAIN s.rings
  /\ aligned(s.ballAngle, s.rings[s.escaped])

\* C36: the fail checks precede the escape. A tick in which the critical
\* timeout, the obstacle collision or the ring timeout holds ends the run in
\* that tick with that cause and processes no escape, also when the ball is
\* within the gap of the current ring: score, chain, chainTimer and the
\* critical counters are as before the tick, pressure is the one the
\* pressure stage of the tick computed, and pendingEscapes is as the
\* transition stage left it (emptied by a commit, otherwise untouched)
C36_FailBeforeEscape ==
  [][ (IsTick /\ (CriticalOver \/ ObstacleHit(state') \/ RingLate)) =>
        /\ ~running'
        /\ endReason' \in EarlyCauses
        /\ state'.score = state.score
        /\ state'.chain = state.chain
        /\ state'.chainTimer = state.chainTimer
        /\ state'.runStats.criticalEscapes = state.runStats.criticalEscapes
        /\ state'.runStats.maxChain = state.runStats.maxChain
        /\ state'.pressure = TickPressure(state.pressure, TickDt, expert)
        /\ state'.escapeTargetEscaped = state.escapeTargetEscaped
        /\ state'.pendingEscapes =
             IF endReason' # "pressure_fail" /\ tweenComplete(state, TickDt)
             THEN << >>
             ELSE state.pendingEscapes ]_vars

\* C36 witness: a run ended by the obstacle or the ring timeout in a tick
\* that left the ball within the gap of the current ring with no transition
\* pending
C36_Witness ==
  /\ endReason \in {"obstacle", "time"}
  /\ ~running
  /\ state.pendingEscapes = << >>
  /\ BallInGap(state)


(* --------------------------- critical counters ------------------------- *)
\* C37: in every reachable state, runStats.criticalEntries minus
\* runStats.criticalEscapes is 0 or 1, and it is 1 exactly when
\* criticalActive is true
C37_CriticalCounters ==
  LET open == state.runStats.criticalEntries - state.runStats.criticalEscapes
  IN  /\ open \in {0, 1}
      /\ open = 1 <=> state.criticalActive

\* C37 witness: a running game back in NORMAL after one critical orbit that
\* an escape has left, both counters at 1
C37_Witness ==
  /\ running
  /\ ~state.criticalActive
  /\ state.runStats.criticalEntries = 1
  /\ state.runStats.criticalEscapes = 1


(* --------------------------- CRITICAL is sticky ------------------------ *)
\* C38: once criticalActive is true it stays true, with the same
\* criticalStartTime, through every tick and tap of the run, whatever the
\* pressure does; it becomes false only in a tick that detects an escape
\* (counted as a critical escape) or when the next run is started
C38_CriticalSticky ==
  [][ state.criticalActive =>
        IF state'.criticalActive
        THEN state'.criticalStartTime = state.criticalStartTime
        ELSE \/ /\ IsTick
                /\ state'.score > state.score
                /\ state'.runStats.criticalEscapes = state.runStats.criticalEscapes + 1
             \/ ~running /\ running' ]_vars

\* C38 witness: a running game still in the critical orbit it entered more
\* than one tick ago, its pressure at or above the threshold and below 1
C38_Witness ==
  /\ running
  /\ state.criticalActive
  /\ state.criticalElapsed > MaxDt
  /\ state.pressure < PressureOne
  /\ state.pressure >= criticalThreshold


(* -------------------------- transition progress ------------------------ *)
\* C39: a scheduled transition has a duration in (0, 0.4] s and a progress
\* below 1; every tick taken while it is pending either ends the run, or
\* commits escaped to escapeTargetEscaped (the progress has reached 1), or
\* leaves the transition as it is and advances the progress by
\* dt / escapeTweenDuration, at least dt / 0.4; so the ticks of a running
\* game that pass with the same transition pending are at most
\* escapeTweenDuration / dt, and it cannot stay pending forever
C39_TransitionProgress ==
  /\ [](state.pendingEscapes # << >> =>
          /\ state.escapeTweenDuration \in 1..TWEEN_CAP
          /\ state.escapeTweenProgress \in 0..(ProgressOne - 1))
  /\ [][ (IsTick /\ state.pendingEscapes # << >>) =>
           \/ ~running'
           \/ /\ state'.escaped = state.escapeTargetEscaped
              /\ state.escapeTweenProgress * state.escapeTweenDuration + TickDt * ProgressOne
                   >= ProgressOne * state.escapeTweenDuration
           \/ /\ state'.escaped = state.escaped
              /\ state'.pendingEscapes = state.pendingEscapes
              /\ state'.escapeTargetEscaped = state.escapeTargetEscaped
              /\ state'.escapeTweenDuration = state.escapeTweenDuration
              /\ state'.escapeTweenProgress =
                   state.escapeTweenProgress + (TickDt * ProgressOne) \div state.escapeTweenDuration
              /\ state'.escapeTweenProgress >=
                   state.escapeTweenProgress + (TickDt * ProgressOne) \div TWEEN_CAP ]_vars

\* C39 witness: a running game that has committed a transition of the
\* longest duration, a chain of several rings, and is in the next one
C39_Witness ==
  /\ running
  /\ state.escaped >= 2
  /\ state.pendingEscapes # << >>
  /\ state.escapeTweenDuration = TWEEN_CAP
  /\ state.escapeTweenProgress > 0


(* ------------------------------- addXP --------------------------------- *)
RECURSIVE XpOfLevels(_, _)
\* the sum of getXPToNextLevel over the levels from..(to - 1)
XpOfLevels(from, to) ==
  IF from >= to THEN 0 ELSE getXPToNextLevel(from) + XpOfLevels(from + 1, to)

\* C33: after addXP(playerData, xpToAdd) called with level >= 1, xp >= 0 and
\* xpToAdd >= 0: 0 <= xp < getXPToNextLevel(level); the level has not
\* decreased; xp plus the XP of the levels passed equals the xp before plus
\* xpToAdd; the levels gained are the ones passed, one per iteration of the
\* loop, each of which takes at least getXPToNextLevel(1) from xp, so the
\* loop ends after at most (xp + xpToAdd) / getXPToNextLevel(1) iterations
C33_AddXP ==
  progression.call # NoCall =>
    LET c == progression.call
    IN  /\ progression.xp >= 0
        /\ progression.xp < getXPToNextLevel(progression.level)
        /\ progression.level >= c.level
        /\ progression.xp + XpOfLevels(c.level, progression.level) = c.xp + c.xpToAdd
        /\ Len(progression.levelsGained) = progression.level - c.level
        /\ \A i \in DOMAIN progression.levelsGained :
             progression.levelsGained[i] = c.level + i
        /\ Len(progression.levelsGained) * getXPToNextLevel(1) <= c.xp + c.xpToAdd

\* C33 witness: a call that passed several levels at once and left some xp
C33_Witness ==
  /\ progression.call # NoCall
  /\ Len(progression.levelsGained) >= 2
  /\ progression.xp > 0
  /\ progression.call.xp >= getXPToNextLevel(progression.call.level)

\* C32: over any sequence of updateMissionProgress calls on one mission
\* list, a mission is on a returned `completed` list at most once, a
\* completed mission's progress and completed flag do not change any more,
\* and a mission is marked completed only with progress >= target.
C32_CompletedOnce ==
  /\ [](\A i \in DOMAIN progression.missions :
          LET mission == progression.missions[i]
          IN  /\ progression.reported[mission.id] <= 1
              /\ mission.completed => mission.progress >= mission.target
              /\ mission.completed <=> progression.reported[mission.id] = 1)
  /\ [][\A i \in DOMAIN progression.missions :
          progression.missions[i].completed =>
            /\ progression'.missions[i].completed
            /\ progression'.missions[i].progress = progression.missions[i].progress
            /\ progression'.missions[i].id \notin
                 {progression'.completed[k] : k \in DOMAIN progression'.completed}]_vars

\* a run_end with more rings than the progress of a completed best_score
\* mission was handled and returned nothing
C32_Witness ==
  /\ progression.call # NoCall
  /\ progression.call.type = "run_end"
  /\ progression.completed = << >>
  /\ \E i \in DOMAIN progression.missions :
       /\ progression.missions[i].type = "best_score"
       /\ progression.missions[i].completed
       /\ progression.call.data.rings > progression.missions[i].progress

\* the missions completed by the call of endGame or of handleModeCompletion
\* are rewarded once, by the processRunCompletion of that handler; no other
\* mission is ever rewarded
RunEndMissionsRewarded ==
  \A i \in DOMAIN progression.missions :
    LET mission == progression.missions[i]
        atEnd == progression.completedBy[mission.id]
                   \in {"run_end", "sprint_complete", "daily_complete"}
    IN  /\ progression.rewarded[mission.id] = (IF atEnd THEN 1 ELSE 0)
        /\ mission.completed <=> progression.completedBy[mission.id] # "none"

\* C31: every mission that becomes completed, whatever the event (run_start,
\* ring_escape, chain_reached, run_end, sprint_complete, daily_complete),
\* has its reward added to the XP exactly once, by the processRunCompletion
\* of the run in which it completed: never more than once, and once that
\* run is over, once.
C31_MissionReward ==
  \A i \in DOMAIN progression.missions :
    LET mission == progression.missions[i]
    IN  /\ progression.rewarded[mission.id] <= 1
        /\ (~running /\ mission.completed) => progression.rewarded[mission.id] = 1

\* C34: when a critical escape or a chain of several rings occurs in a
\* running game, checkMidRunAchievements completes without error, and every
\* achievement whose threshold is met by the stats of the run (rings,
\* maxChain, criticalEscapes) is in playerData.unlocks.achievements when the
\* handler is done.
C34_MidRunAchievements ==
  \A k \in DOMAIN progression.midRun :
    LET call == progression.midRun[k]
    IN  /\ call.promise = "fulfilled"
        /\ \A a \in Achievements :
             (/\ a.type \in {"rings", "maxChain", "criticalEscapes"}
              /\ achievementMet(a, progression, call.stats))
             => a.id \in progression.achievements

\* the prompts shown in one week are those of one run end: the counters let
\* no later run end set a timer within a week of a prompt, nor after three
\* prompts, nor once the app is installed or standalone
PromptsOfLaterRuns ==
  [][pwa'.timers # pwa.timers /\ Len(pwa'.timers) > Len(pwa.timers) =>
       /\ ~(pwa.pwaInstalled \/ pwa.isStandalone)
       /\ pwa.installPromptShown < 3
       /\ pwa.clock - pwa.installPromptLastShown >= OneWeek]_vars

====
